---- MODULE Spec2Model ----
(***************************************************************************)
(* Client-side layer of the document-analysis application:                 *)
(*   - the SSE progress-stream decoder (lib/api.ts,                        *)
(*     extractActionablesStreaming) and the ActionablesPanel that drives   *)
(*     it (components/views/actionables-panel.tsx);                        *)
(*   - the PDF viewer's imperative handle (components/views/pdf-viewer.tsx)*)
(*     and the research page's citation router (app/.../page.tsx);         *)
(*   - the chat's conversation correlator (ChatInterface / ResearchChat).  *)
(*                                                                         *)
(* JavaScript runs one handler at a time: every action below is one        *)
(* handler (an event handler together with the render and the effects      *)
(* React flushes with it, a timer callback, or the code between two        *)
(* awaits of an async function).                                           *)
(***************************************************************************)
EXTENDS Integers, Sequences, FiniteSets, TLC

VARIABLES
    \* ---- ActionablesPanel and its streaming calls
    inst,          \* the mounted ActionablesPanel instance (0: not mounted)
    navs,          \* navigations so far: mounts of the panel, changes of its docId
    docId,         \* the docId prop of the mounted panel
    panel,         \* React state of the mounted panel
    jobs,          \* the extractActionablesStreaming calls, by start order
    loads,         \* loadActionables calls in flight
    \* ---- ResearchPage (citation router) and its PdfViewer
    rightPanel,    \* "corpus" | "pdf"
    pdfDocId,      \* the active document (NULL: none)
    pendingPage,   \* <<>>: null, <<p>>: page p is pending
    timers,        \* pending setTimeout callbacks of the pending-page effect,
                   \* each the pendingPage its closure holds
    mounted,       \* pdfRef.current is a PdfViewer handle
    chunkLoaded,   \* the dynamic import of the viewer has resolved
    blobDoc,       \* the document whose blob the viewer renders (NULL: none)
    fetches,       \* blob fetches of the mounted viewer in flight
    pages,         \* page indices whose page layer is in the DOM
    polls,         \* live setInterval polls of jumpToPage calls
    jumps,         \* the jumpToPage calls made so far: [doc, idx]
    scrolls,       \* the scrollTo calls made so far
    reqs,          \* the handleCitationClick calls made so far
    \* ---- ChatInterface / ResearchChat
    chat,          \* React state of the chat component
    srv,           \* each scope's conversations on the server, most recent first
    calls,         \* requests of the chat component in flight
    turns,         \* the turns submitted so far: what was sent, what came back
    clicks         \* new-chat, select and delete clicks so far

exVars == <<inst, navs, docId, panel, jobs, loads>>

navVars == <<rightPanel, pdfDocId, pendingPage, timers, mounted, chunkLoaded,
             blobDoc, fetches, pages, polls, jumps, scrolls, reqs>>

chatVars == <<chat, srv, calls, turns, clicks>>

vars == <<exVars, navVars, chatVars>>

(***************************************************************************)
(* Bounds of the model.                                                    *)
(***************************************************************************)
MaxFrames == 3      \* frames in a stream the decoder specification draws
MaxJobs == 2        \* streaming calls started in one behaviour
MaxNavs == 2        \* panel mounts and document changes in one behaviour
MaxRequests == 2    \* citation clicks in one behaviour
MaxTurns == 2       \* chat turns submitted in one behaviour
MaxClicks == 1      \* new-chat, select and delete clicks in one behaviour
MaxJumps == 2       \* same-document citation clicks on a mounted viewer
MaxSwitches == 1    \* document changes of the mounted chat in one behaviour
MaxPolls == 1       \* jumps made while the polls are followed to their end
MaxEvents == 3      \* events handed to onProgress in any order
MaxBatches == 2     \* batches of a job in protocol order

Docs == {"docA", "docB"}

NULL == "null"      \* JavaScript null / undefined

(***************************************************************************)
(* Text.  A text is a sequence of tokens.  "\n" and " " are the characters *)
(* themselves; "data:" followed by " " is the record-start marker          *)
(* 'data: '; "{", a payload name and "}" together are the JSON text of one *)
(* event object; ":" is an SSE comment line.                               *)
(***************************************************************************)
NL == "\n"
SP == " "

IsSpace(c) == c \in {NL, SP}

RECURSIVE TrimLeft(_)
TrimLeft(s) ==
    IF s # <<>> /\ IsSpace(Head(s)) THEN TrimLeft(Tail(s)) ELSE s

RECURSIVE TrimRight(_)
TrimRight(s) ==
    IF s # <<>> /\ IsSpace(s[Len(s)])
    THEN TrimRight(SubSeq(s, 1, Len(s) - 1))
    ELSE s

\* String.prototype.trim
Trim(s) == TrimRight(TrimLeft(s))

\* buffer.split('\n\n'): the parts between the leftmost, non-overlapping
\* occurrences of the terminator; always at least one part.
RECURSIVE FirstTerminator(_, _)
FirstTerminator(s, i) ==
    IF i >= Len(s) THEN 0
    ELSE IF s[i] = NL /\ s[i + 1] = NL THEN i
    ELSE FirstTerminator(s, i + 1)

RECURSIVE Split(_)
Split(s) ==
    LET i == FirstTerminator(s, 1)
    IN  IF i = 0
        THEN <<s>>
        ELSE <<SubSeq(s, 1, i - 1)>> \o Split(SubSeq(s, i + 2, Len(s)))

\* line.startsWith('data: ')
StartsWithData(line) == Len(line) >= 2 /\ line[1] = "data:" /\ line[2] = SP

\* line.slice(6)
Slice6(line) == SubSeq(line, 3, Len(line))

(***************************************************************************)
(* The event objects the server serialises (ExtractionProgressEvent).  A   *)
(* field the object does not carry is absent from the record's domain.     *)
(***************************************************************************)
JsonNames ==
    {"start50", "prefilter12", "planned3", "bstart1", "bdone1", "bstart2",
     "bdone2", "vstart", "vstartBare", "vdone", "complete",
     "completeNoResult", "error", "errorNoMsg"}

JsonObject(n) ==
    CASE n = "start50" -> [event |-> "start", total_nodes |-> 50]
      [] n = "prefilter12" ->
            [event |-> "prefilter_done", candidate_count |-> 12, total_nodes |-> 50]
      [] n = "planned3" -> [event |-> "batches_planned", total_batches |-> 3]
      [] n = "bstart1" -> [event |-> "batch_start", batch |-> 1, sections |-> <<"A">>]
      [] n = "bdone1" ->
            [event |-> "batch_done", batch |-> 1, batch_actionables |-> 4,
             cumulative_actionables |-> 4]
      [] n = "bstart2" -> [event |-> "batch_start", batch |-> 2]
      [] n = "bdone2" ->
            [event |-> "batch_done", batch |-> 2, batch_actionables |-> 1,
             cumulative_actionables |-> 5]
      [] n = "vstart" -> [event |-> "validation_start", total_actionables |-> 5]
      [] n = "vstartBare" -> [event |-> "validation_start"]
      [] n = "vdone" -> [event |-> "validation_done", validated |-> 5, flagged |-> 0]
      [] n = "complete" -> [event |-> "complete", result |-> "extracted"]
      [] n = "completeNoResult" -> [event |-> "complete"]
      [] n = "error" -> [event |-> "error", message |-> "LLM quota exceeded"]
      [] n = "errorNoMsg" -> [event |-> "error"]

\* JSON.parse succeeds: surrounding whitespace is allowed, the text must be
\* one whole object.
JsonParses(s) ==
    LET w == Trim(s)
    IN  Len(w) = 3 /\ w[1] = "{" /\ w[3] = "}" /\ w[2] \in JsonNames

JsonParse(s) == JsonObject(Trim(s)[2])

Has(e, f) == f \in DOMAIN e

(***************************************************************************)
(* ExtractionProgress and the onProgress reducer of handleExtract.         *)
(***************************************************************************)
INITIAL_PROGRESS ==
    [stage |-> "prefilter", candidateCount |-> 0, totalNodes |-> 0,
     totalBatches |-> 0, currentBatch |-> 0, currentSections |-> <<>>,
     cumulativeActionables |-> 0, lastBatchActionables |-> 0]

\* A reducer whose batches_planned case records the plan and leaves the stage,
\* and whose batch_done case leaves the batch's own count.
applyStale(p, e) ==
    CASE e.event = "start" ->
            [p EXCEPT !.stage = "prefilter",
                      !.totalNodes = IF Has(e, "total_nodes") THEN e.total_nodes ELSE 0]
      [] e.event = "prefilter_done" ->
            [p EXCEPT !.candidateCount =
                          IF Has(e, "candidate_count") THEN e.candidate_count ELSE 0,
                      !.totalNodes =
                          IF Has(e, "total_nodes") THEN e.total_nodes ELSE p.totalNodes]
      [] e.event = "batches_planned" ->
            [p EXCEPT !.totalBatches =
                          IF Has(e, "total_batches") THEN e.total_batches ELSE 0]
      [] e.event = "batch_start" ->
            [p EXCEPT !.currentBatch = IF Has(e, "batch") THEN e.batch ELSE p.currentBatch,
                      !.currentSections = IF Has(e, "sections") THEN e.sections ELSE <<>>]
      [] e.event = "batch_done" ->
            [p EXCEPT !.currentBatch = IF Has(e, "batch") THEN e.batch ELSE p.currentBatch,
                      !.cumulativeActionables =
                          IF Has(e, "cumulative_actionables") THEN e.cumulative_actionables
                          ELSE p.cumulativeActionables]
      [] e.event = "validation_start" ->
            [p EXCEPT !.stage = "validating",
                      !.cumulativeActionables =
                          IF Has(e, "total_actionables") THEN e.total_actionables
                          ELSE p.cumulativeActionables]
      [] e.event = "validation_done" -> [p EXCEPT !.stage = "done"]
      [] OTHER -> p

\* One onProgress call: the setProgress updater of the event's case; an
\* event with no case (complete, unknown tags) changes nothing.
apply(p, e) ==
    CASE e.event = "start" ->
            [p EXCEPT !.stage = "prefilter",
                      !.totalNodes = IF Has(e, "total_nodes") THEN e.total_nodes ELSE 0]
      [] e.event = "prefilter_done" ->
            [p EXCEPT !.candidateCount =
                          IF Has(e, "candidate_count") THEN e.candidate_count ELSE 0,
                      !.totalNodes =
                          IF Has(e, "total_nodes") THEN e.total_nodes ELSE p.totalNodes]
      [] e.event = "batches_planned" ->
            [p EXCEPT !.stage = "extracting",
                      !.totalBatches =
                          IF Has(e, "total_batches") THEN e.total_batches ELSE 0,
                      !.candidateCount =
                          IF Has(e, "candidate_count") THEN e.candidate_count
                          ELSE p.candidateCount]
      [] e.event = "batch_start" ->
            [p EXCEPT !.currentBatch = IF Has(e, "batch") THEN e.batch ELSE p.currentBatch,
                      !.currentSections = IF Has(e, "sections") THEN e.sections ELSE <<>>]
      [] e.event = "batch_done" ->
            [p EXCEPT !.currentBatch = IF Has(e, "batch") THEN e.batch ELSE p.currentBatch,
                      !.lastBatchActionables =
                          IF Has(e, "batch_actionables") THEN e.batch_actionables ELSE 0,
                      !.cumulativeActionables =
                          IF Has(e, "cumulative_actionables") THEN e.cumulative_actionables
                          ELSE p.cumulativeActionables]
      [] e.event = "validation_start" ->
            [p EXCEPT !.stage = "validating",
                      !.cumulativeActionables =
                          IF Has(e, "total_actionables") THEN e.total_actionables
                          ELSE p.cumulativeActionables]
      [] e.event = "validation_done" -> [p EXCEPT !.stage = "done"]
      [] OTHER -> p

\* The updaters of several onProgress calls, applied in call order.
RECURSIVE applyAll(_, _)
applyAll(p, es) ==
    IF es = <<>> THEN p ELSE applyAll(apply(p, Head(es)), Tail(es))

(***************************************************************************)
(* extractActionablesStreaming: the body of the read loop for one chunk.   *)
(* st = [final, out, thrown]: finalResult, the events handed to onProgress *)
(* by this chunk so far, and the message of the Error thrown (NULL: none). *)
(***************************************************************************)
\* An iteration that hands an error record to onProgress like any other.
ProcessPartNoThrow(part, st) ==
    LET line == Trim(part)
    IN  IF ~StartsWithData(line) THEN st
        ELSE IF ~JsonParses(Slice6(line)) THEN st
        ELSE [st EXCEPT !.out = Append(st.out, JsonParse(Slice6(line)))]

\* An iteration that lets the SyntaxError of JSON.parse escape.
ProcessPartStrict(part, st) ==
    LET line == Trim(part)
    IN  IF ~StartsWithData(line) THEN st
        ELSE IF ~JsonParses(Slice6(line)) THEN [st EXCEPT !.thrown = "SyntaxError"]
        ELSE LET parsed == JsonParse(Slice6(line))
                 fin == IF parsed.event = "complete" /\ Has(parsed, "result")
                        THEN parsed.result ELSE st.final
             IN  IF parsed.event = "error"
                 THEN [st EXCEPT !.final = fin,
                                 !.thrown = IF Has(parsed, "message") THEN parsed.message
                                            ELSE "Extraction failed"]
                 ELSE [st EXCEPT !.final = fin, !.out = Append(st.out, parsed)]

\* An iteration that takes every complete record as the end of the job, with
\* an empty result when the record carries none.
ProcessPartAnyComplete(part, st) ==
    LET line == Trim(part)
    IN  IF ~StartsWithData(line) THEN st
        ELSE IF ~JsonParses(Slice6(line)) THEN st
        ELSE LET parsed == JsonParse(Slice6(line))
                 fin == IF parsed.event = "complete"
                        THEN (IF Has(parsed, "result") THEN parsed.result ELSE "empty")
                        ELSE st.final
             IN  IF parsed.event = "error"
                 THEN [st EXCEPT !.final = fin,
                                 !.thrown = IF Has(parsed, "message") THEN parsed.message
                                            ELSE "Extraction failed"]
                 ELSE [st EXCEPT !.final = fin, !.out = Append(st.out, parsed)]

\* One iteration of `for (const part of parts)`.
ProcessPart(part, st) ==
    LET line == Trim(part)
    IN  IF ~StartsWithData(line) THEN st
        ELSE IF ~JsonParses(Slice6(line)) THEN st
        ELSE LET parsed == JsonParse(Slice6(line))
                 fin == IF parsed.event = "complete" /\ Has(parsed, "result")
                        THEN parsed.result ELSE st.final
             IN  IF parsed.event = "error"
                 THEN [st EXCEPT !.final = fin,
                                 !.thrown = IF Has(parsed, "message") THEN parsed.message
                                            ELSE "Extraction failed"]
                 ELSE [st EXCEPT !.final = fin, !.out = Append(st.out, parsed)]

\* A loop that takes the segments of a chunk last first.
RECURSIVE ProcessPartsReversed(_, _)
ProcessPartsReversed(parts, st) ==
    IF parts = <<>> \/ st.thrown # NULL THEN st
    ELSE ProcessPartsReversed(SubSeq(parts, 1, Len(parts) - 1),
                              ProcessPart(parts[Len(parts)], st))

\* The for loop; a throw leaves it.
RECURSIVE ProcessParts(_, _)
ProcessParts(parts, st) ==
    IF parts = <<>> \/ st.thrown # NULL THEN st
    ELSE ProcessParts(Tail(parts), ProcessPart(Head(parts), st))

\* A buffer that is emptied after every chunk.
KeptBufferDropped(parts) == <<>>

\* buffer = parts.pop() || ''
KeptBuffer(parts) == parts[Len(parts)]

\* A pass that also processes the text after the last terminator and keeps
\* nothing.
ProcessChunkEager(buffer, final, chunk) ==
    LET parts == Split(buffer \o chunk)
        st == ProcessParts(parts, [final |-> final, out |-> <<>>, thrown |-> NULL])
    IN  [buffer |-> <<>>, final |-> st.final, out |-> st.out, thrown |-> st.thrown]

\* One pass of the while loop with a chunk read: [buffer, final, out, thrown].
ProcessChunk(buffer, final, chunk) ==
    LET parts == Split(buffer \o chunk)
        st == ProcessParts(SubSeq(parts, 1, Len(parts) - 1),
                           [final |-> final, out |-> <<>>, thrown |-> NULL])
    IN  [buffer |-> KeptBuffer(parts), final |-> st.final, out |-> st.out,
         thrown |-> st.thrown]

ENDED_WITHOUT_RESULT == "Extraction stream ended without a complete result"

(***************************************************************************)
(* The streams a server may send.                                          *)
(***************************************************************************)
\* One serialised event: 'data: {...}\n\n'
Rec(n) == <<"data:", SP, "{", n, "}", NL, NL>>

RecLen == Len(Rec("start50"))

\* A terminated data record whose payload is cut off: JSON.parse rejects it.
MalformedRec == <<"data:", SP, "{", "bstart2", NL, NL>>

RECURSIVE Ser(_)
Ser(names) == IF names = <<>> THEN <<>> ELSE Rec(Head(names)) \o Ser(Tail(names))

\* A whole job in protocol order.
FullJob ==
    <<"start50", "prefilter12", "planned3", "bstart1", "bdone1", "bstart2",
      "bdone2", "vstart", "vdone", "complete">>

Prefix(s, k) == SubSeq(s, 1, k)

\* Streams in protocol order: the whole job, jobs cut short by the transport,
\* jobs ended by an error record (with records the server still sent after
\* it), a job with a malformed record between well-formed ones.
ProtocolStreams ==
    {Ser(FullJob), Ser(Prefix(FullJob, 5)), Ser(Prefix(FullJob, 8)),
     Ser(Prefix(FullJob, 5) \o <<"error", "bstart2", "complete">>),
     Ser(<<"start50", "errorNoMsg", "vdone">>),
     Ser(Prefix(FullJob, 9) \o <<"completeNoResult">>),
     Ser(<<"start50">>) \o MalformedRec \o Ser(<<"prefilter12", "complete">>)}

\* Pieces of SSE traffic: records, a record whose terminator is not whole
\* yet, a payload that is no JSON, a comment line (a keep-alive when a newline
\* follows it, else the first line of the next segment), a newline.
Frames ==
    {Rec("complete"), Rec("error"),
     <<"data:", SP, "{", "bdone1", "}", NL>>,
     MalformedRec,
     <<":", NL>>,
     <<NL>>}

RECURSIVE FrameSeqs(_)
FrameSeqs(k) ==
    IF k = 0 THEN {<<>>}
    ELSE LET shorter == FrameSeqs(k - 1)
         IN  shorter \cup {s \o f : s \in shorter, f \in Frames}

\* Every concatenation of at most MaxFrames frames.
FramedStreams == FrameSeqs(MaxFrames)

\* What the POST may answer: a streaming body, a non-success status (whose
\* body has a detail, has an empty one, or has none or does not parse), or a
\* response with no body.
Responses(streams) ==
    {[kind |-> "stream", stream |-> s] : s \in streams}
        \cup {[kind |-> "notok", detail |-> d] : d \in {NULL, "", "Document not found"}}
        \cup {[kind |-> "nobody"]}

\* Short jobs, for the panel's life with several calls in flight: one that
\* completes, one the transport cuts after validation_start, one ended by an
\* error record that more records follow.
ShortStreams ==
    {Ser(<<"start50", "complete">>), Ser(<<"vstart">>), Ser(<<"error", "vdone">>)}

ShortResponses == Responses(ShortStreams)

DecoderResponses == Responses(FramedStreams \cup ProtocolStreams)

\* What GET /actionables may answer: the saved result (which may say that
\* nothing is extracted yet), or a failure.
LoadAnswers == {"saved", "fail"}

(***************************************************************************)
(* ActionablesPanel.                                                       *)
(***************************************************************************)
FreshPanel ==
    [result |-> NULL, loading |-> TRUE, extracting |-> FALSE, error |-> NULL,
     progress |-> INITIAL_PROGRESS]

NoPanel ==
    [result |-> NULL, loading |-> FALSE, extracting |-> FALSE, error |-> NULL,
     progress |-> INITIAL_PROGRESS]

\* The panel is mounted (first render): useState initial values, and the
\* docId effect calls loadActionables, which runs up to its await.
MountPanel(d) ==
    /\ inst = 0
    /\ navs < MaxNavs
    /\ navs' = navs + 1
    /\ inst' = navs + 1
    /\ docId' = d
    /\ panel' = FreshPanel
    /\ loads' = loads \cup {[inst |-> navs + 1, doc |-> d]}
    /\ UNCHANGED <<jobs, navVars, chatVars>>

\* The document page leaves the actionables tab: the panel's state is gone.
\* Its streaming calls go on; so do its loads, whose setters then do nothing
\* (LoadReturn), which is why they are dropped here.
UnmountPanel ==
    /\ inst # 0
    /\ inst' = 0
    /\ docId' = NULL
    /\ panel' = NoPanel
    /\ loads' = {}
    /\ UNCHANGED <<navs, jobs, navVars, chatVars>>

\* The docId prop changes on the mounted panel: the effect calls
\* loadActionables for the new document.
ChangeDoc(d) ==
    /\ inst # 0
    /\ d # docId
    /\ navs < MaxNavs
    /\ navs' = navs + 1
    /\ docId' = d
    /\ panel' = [panel EXCEPT !.loading = TRUE, !.error = NULL]
    /\ loads' = loads \cup {[inst |-> inst, doc |-> d]}
    /\ UNCHANGED <<inst, jobs, navVars, chatVars>>

\* loadActionables after its await; the setters of an unmounted instance do
\* nothing.
LoadReturn(l, answer) ==
    /\ l \in loads
    /\ loads' = loads \ {l}
    /\ panel' =
          IF l.inst # inst THEN panel
          ELSE IF answer = "fail"
               THEN [panel EXCEPT !.error = "Could not load actionables",
                                  !.loading = FALSE]
               ELSE [panel EXCEPT !.result = answer, !.loading = FALSE]
    /\ UNCHANGED <<inst, navs, docId, jobs, navVars, chatVars>>

\* State setters that belong to the page, whichever panel instance shows.
OwnsPanelShared(j) == inst # 0

\* The state setters a streaming call's handleExtract closes over are those
\* of the panel instance that started it.
OwnsPanel(j) == jobs[j].inst = inst

\* A call is superseded once a later call has been started.
Superseded(j) == j < Len(jobs)

\* History kept with a call: late, it has run after it was superseded; cut,
\* one of its reads ended inside a segment, with more of the body to come.
Step(jb, j) == [jb EXCEPT !.late = jb.late \/ Superseded(j)]

\* A start that leaves the progress and the error of the previous job.
handleExtractNoReset ==
    /\ inst # 0
    /\ ~panel.loading
    /\ ~panel.extracting
    /\ Len(jobs) < MaxJobs
    /\ panel' = [panel EXCEPT !.extracting = TRUE]
    /\ jobs' = Append(jobs,
                  [inst |-> inst, pc |-> "fetch", opened |-> FALSE,
                   stream |-> <<>>, rest |-> <<>>, buffer |-> <<>>,
                   final |-> NULL, delivered |-> <<>>, value |-> NULL,
                   late |-> FALSE, cut |-> FALSE])
    /\ UNCHANGED <<inst, navs, docId, loads, navVars, chatVars>>

\* A start whose buttons stay enabled while a call is in flight.
handleExtractAnyTime ==
    /\ inst # 0
    /\ ~panel.loading
    /\ Len(jobs) < MaxJobs
    /\ panel' = [panel EXCEPT !.extracting = TRUE, !.error = NULL,
                              !.progress = INITIAL_PROGRESS]
    /\ jobs' = Append(jobs,
                  [inst |-> inst, pc |-> "fetch", opened |-> FALSE,
                   stream |-> <<>>, rest |-> <<>>, buffer |-> <<>>,
                   final |-> NULL, delivered |-> <<>>, value |-> NULL,
                   late |-> FALSE, cut |-> FALSE])
    /\ UNCHANGED <<inst, navs, docId, loads, navVars, chatVars>>

\* handleExtract up to its first await.  The buttons that call it are
\* rendered only when the panel is neither loading nor extracting; force is
\* true from the Re-extract button of the results view.
handleExtract ==
    /\ inst # 0
    /\ ~panel.loading
    /\ ~panel.extracting
    /\ Len(jobs) < MaxJobs
    /\ panel' = [panel EXCEPT !.extracting = TRUE, !.error = NULL,
                              !.progress = INITIAL_PROGRESS]
    /\ jobs' = Append(jobs,
                  [inst |-> inst, pc |-> "fetch", opened |-> FALSE,
                   stream |-> <<>>, rest |-> <<>>, buffer |-> <<>>,
                   final |-> NULL, delivered |-> <<>>, value |-> NULL,
                   late |-> FALSE, cut |-> FALSE])
    /\ UNCHANGED <<inst, navs, docId, loads, navVars, chatVars>>

\* A catch that also drops the stored result.
RejectsDropsResult(j, jb, out, msg) ==
    /\ jobs' = [jobs EXCEPT ![j] =
                   [Step(jb, j) EXCEPT !.pc = "rejected", !.value = msg,
                                       !.rest = <<>>, !.buffer = <<>>]]
    /\ panel' =
          IF OwnsPanel(j)
          THEN [panel EXCEPT !.progress = applyAll(panel.progress, out),
                             !.error = msg, !.extracting = FALSE, !.result = NULL]
          ELSE panel

\* The call throws: handleExtract's catch and finally.
Rejects(j, jb, out, msg) ==
    /\ jobs' = [jobs EXCEPT ![j] =
                   [Step(jb, j) EXCEPT !.pc = "rejected", !.value = msg,
                                       !.rest = <<>>, !.buffer = <<>>]]
    /\ panel' =
          IF OwnsPanel(j)
          THEN [panel EXCEPT !.progress = applyAll(panel.progress, out),
                             !.error = msg, !.extracting = FALSE]
          ELSE panel

\* The call returns: setResult(data) and finally.
Resolves(j, jb, data) ==
    /\ jobs' = [jobs EXCEPT ![j] =
                   [Step(jb, j) EXCEPT !.pc = "resolved", !.value = data,
                                       !.rest = <<>>, !.buffer = <<>>]]
    /\ panel' =
          IF OwnsPanel(j)
          THEN [panel EXCEPT !.result = data, !.extracting = FALSE]
          ELSE panel

\* A call that reads the body of whatever response it gets.
FetchReturnAnyStatus(j, resp) ==
    /\ j \in 1..Len(jobs)
    /\ jobs[j].pc = "fetch"
    /\ jobs' = [jobs EXCEPT ![j] =
                   [Step(jobs[j], j) EXCEPT !.pc = "reading", !.opened = TRUE]]
    /\ panel' = panel
    /\ UNCHANGED <<inst, navs, docId, loads, navVars, chatVars>>

\* `await fetch(...)` returns: the status check and getReader.
FetchReturn(j, resp) ==
    /\ j \in 1..Len(jobs)
    /\ jobs[j].pc = "fetch"
    /\ CASE resp.kind = "notok" ->
              Rejects(j, jobs[j], <<>>,
                      IF resp.detail \notin {NULL, ""} THEN resp.detail
                      ELSE "Actionable extraction failed")
         [] resp.kind = "nobody" -> Rejects(j, jobs[j], <<>>, "No response body")
         [] OTHER ->
              /\ jobs' = [jobs EXCEPT ![j] =
                             [Step(jobs[j], j) EXCEPT !.pc = "reading",
                                                      !.opened = TRUE,
                                                      !.stream = resp.stream,
                                                      !.rest = resp.stream]]
              /\ panel' = panel
    /\ UNCHANGED <<inst, navs, docId, loads, navVars, chatVars>>

\* A pass that stores the result in the panel as soon as the complete record
\* is read.
ReadChunkStoresResult(j, n) ==
    /\ j \in 1..Len(jobs)
    /\ jobs[j].pc = "reading"
    /\ n \in 1..Len(jobs[j].rest)
    /\ LET jb == jobs[j]
           r == ProcessChunk(jb.buffer, jb.final, SubSeq(jb.rest, 1, n))
           read == [jb EXCEPT !.rest = SubSeq(jb.rest, n + 1, Len(jb.rest)),
                              !.buffer = r.buffer, !.final = r.final,
                              !.delivered = jb.delivered \o r.out,
                              !.cut = jb.cut \/ (r.buffer # <<>> /\ n < Len(jb.rest))]
       IN  IF r.thrown # NULL
           THEN Rejects(j, read, r.out, r.thrown)
           ELSE /\ jobs' = [jobs EXCEPT ![j] = Step(read, j)]
                /\ panel' = IF OwnsPanel(j)
                            THEN [panel EXCEPT
                                     !.progress = applyAll(panel.progress, r.out),
                                     !.result = IF r.final # NULL THEN r.final
                                                ELSE panel.result]
                            ELSE panel
    /\ UNCHANGED <<inst, navs, docId, loads, navVars, chatVars>>

\* `await reader.read()` returns the next n characters of the body: one pass
\* of the while loop.
ReadChunk(j, n) ==
    /\ j \in 1..Len(jobs)
    /\ jobs[j].pc = "reading"
    /\ n \in 1..Len(jobs[j].rest)
    /\ LET jb == jobs[j]
           r == ProcessChunk(jb.buffer, jb.final, SubSeq(jb.rest, 1, n))
           read == [jb EXCEPT !.rest = SubSeq(jb.rest, n + 1, Len(jb.rest)),
                              !.buffer = r.buffer, !.final = r.final,
                              !.delivered = jb.delivered \o r.out,
                              !.cut = jb.cut \/ (r.buffer # <<>> /\ n < Len(jb.rest))]
       IN  IF r.thrown # NULL
           THEN Rejects(j, read, r.out, r.thrown)
           ELSE /\ jobs' = [jobs EXCEPT ![j] = Step(read, j)]
                /\ panel' = IF OwnsPanel(j)
                            THEN [panel EXCEPT !.progress = applyAll(panel.progress, r.out)]
                            ELSE panel
    /\ UNCHANGED <<inst, navs, docId, loads, navVars, chatVars>>

\* A read loop that leaves with whatever finalResult holds.
ReadDoneSilent(j) ==
    /\ j \in 1..Len(jobs)
    /\ jobs[j].pc = "reading"
    /\ jobs[j].rest = <<>>
    /\ Resolves(j, jobs[j], jobs[j].final)
    /\ UNCHANGED <<inst, navs, docId, loads, navVars, chatVars>>

\* `await reader.read()` returns done: the loop is left.
ReadDone(j) ==
    /\ j \in 1..Len(jobs)
    /\ jobs[j].pc = "reading"
    /\ jobs[j].rest = <<>>
    /\ IF jobs[j].final = NULL
       THEN Rejects(j, jobs[j], <<>>, ENDED_WITHOUT_RESULT)
       ELSE Resolves(j, jobs[j], jobs[j].final)
    /\ UNCHANGED <<inst, navs, docId, loads, navVars, chatVars>>

\* The events the decoder may hand to onProgress: every serialised object
\* but the error records, the same tags with no other field, a plan that
\* carries the candidate count, and a tag the switch has no case for.
ProgressEvents ==
    {JsonObject(n) : n \in JsonNames \ {"error", "errorNoMsg"}}
        \cup {[event |-> t] :
                 t \in {"start", "prefilter_done", "batches_planned", "batch_start",
                        "batch_done", "validation_start", "validation_done",
                        "heartbeat"}}
        \cup {[event |-> "batches_planned", total_batches |-> 2, candidate_count |-> 9]}

\* A callback that starts the progress afresh when the job is complete.
onProgressCompleteResets(j, e) ==
    /\ j \in 1..Len(jobs)
    /\ jobs[j].pc = "reading"
    /\ jobs' = [jobs EXCEPT ![j] =
                   [Step(jobs[j], j) EXCEPT !.delivered = Append(jobs[j].delivered, e)]]
    /\ panel' = IF ~OwnsPanel(j) THEN panel
                ELSE IF e.event = "complete"
                THEN [panel EXCEPT !.progress = INITIAL_PROGRESS]
                ELSE [panel EXCEPT !.progress = apply(panel.progress, e)]
    /\ UNCHANGED <<inst, navs, docId, loads, navVars, chatVars>>

\* A callback whose plan event leaves the stage as it was.
onProgressPlanKeepsStage(j, e) ==
    /\ j \in 1..Len(jobs)
    /\ jobs[j].pc = "reading"
    /\ jobs' = [jobs EXCEPT ![j] =
                   [Step(jobs[j], j) EXCEPT !.delivered = Append(jobs[j].delivered, e)]]
    /\ panel' = IF ~OwnsPanel(j) THEN panel
                ELSE IF e.event = "batches_planned"
                THEN [panel EXCEPT !.progress =
                         [apply(panel.progress, e) EXCEPT !.stage = panel.progress.stage]]
                ELSE [panel EXCEPT !.progress = apply(panel.progress, e)]
    /\ UNCHANGED <<inst, navs, docId, loads, navVars, chatVars>>

\* A callback whose plan event starts the batch counters afresh.
onProgressPlanResets(j, e) ==
    /\ j \in 1..Len(jobs)
    /\ jobs[j].pc = "reading"
    /\ jobs' = [jobs EXCEPT ![j] =
                   [Step(jobs[j], j) EXCEPT !.delivered = Append(jobs[j].delivered, e)]]
    /\ panel' = IF ~OwnsPanel(j) THEN panel
                ELSE IF e.event = "batches_planned"
                THEN [panel EXCEPT !.progress =
                         [apply(panel.progress, e) EXCEPT !.currentBatch = 0,
                                                          !.currentSections = <<>>,
                                                          !.lastBatchActionables = 0]]
                ELSE [panel EXCEPT !.progress = apply(panel.progress, e)]
    /\ UNCHANGED <<inst, navs, docId, loads, navVars, chatVars>>

\* A callback whose validation_start takes the total as 0 when the event
\* carries none.
onProgressTotalOrZero(j, e) ==
    /\ j \in 1..Len(jobs)
    /\ jobs[j].pc = "reading"
    /\ jobs' = [jobs EXCEPT ![j] =
                   [Step(jobs[j], j) EXCEPT !.delivered = Append(jobs[j].delivered, e)]]
    /\ panel' = IF ~OwnsPanel(j) THEN panel
                ELSE IF e.event = "validation_start" /\ ~Has(e, "total_actionables")
                THEN [panel EXCEPT !.progress =
                         [apply(panel.progress, e) EXCEPT !.cumulativeActionables = 0]]
                ELSE [panel EXCEPT !.progress = apply(panel.progress, e)]
    /\ UNCHANGED <<inst, navs, docId, loads, navVars, chatVars>>

\* The onProgress callback of handleExtract is called with one event while
\* the call reads its stream.
onProgress(j, e) ==
    /\ j \in 1..Len(jobs)
    /\ jobs[j].pc = "reading"
    /\ jobs' = [jobs EXCEPT ![j] =
                   [Step(jobs[j], j) EXCEPT !.delivered = Append(jobs[j].delivered, e)]]
    /\ panel' = IF OwnsPanel(j)
                THEN [panel EXCEPT !.progress = apply(panel.progress, e)]
                ELSE panel
    /\ UNCHANGED <<inst, navs, docId, loads, navVars, chatVars>>

(***************************************************************************)
(* PdfViewer: the imperative handle and its poll.                          *)
(***************************************************************************)
Pages == {2, 5}             \* page numbers the citations carry

MaxAttempts == 30           \* `if (attempts > 30)`

\* An index that is the page number itself.
PageIndexSame(p) == p

\* pageNumber - 1: the handle's 0-based index of a 1-based page number.
PageIndex(p) == p - 1

PageIdx == {PageIndex(p) : p \in Pages}

RemoveAt(s, i) == SubSeq(s, 1, i - 1) \o SubSeq(s, i + 1, Len(s))

\* handle.jumpToPage(idx): rawJumpToPage(idx), then a poll is started with
\* attempts = 0.  No earlier poll is touched.
jumpToPage(idx) ==
    /\ jumps' = Append(jumps, [doc |-> pdfDocId, idx |-> idx])
    /\ polls' = Append(polls, [idx |-> idx, attempts |-> 0, live |-> TRUE])

\* The layout the browser reports: pages of one height stacked in the scroll
\* container, and the height of the container's box (in pixels).
PageHeight == 100
ViewportHeight == 800

\* pageRect.top - viewportRect.top + viewport.scrollTop
PageTopRelative(idx) == idx * PageHeight

Max(a, b) == IF a >= b THEN a ELSE b

\* A target that is not clamped.
ScrollTopUnclamped(idx) == PageTopRelative(idx) - (ViewportHeight * 15) \div 100

\* Math.max(0, pageTopRelative - viewportRect.height * 0.15)
ScrollTop(idx) == Max(0, PageTopRelative(idx) - (ViewportHeight * 15) \div 100)

\* viewport.scrollTo({ top, behavior: "smooth" }) for the page layer of idx.
Scroll(idx) == [doc |-> blobDoc, idx |-> idx, top |-> ScrollTop(idx)]

\* A tick that never gives up.
PollTickNoCap ==
    /\ polls # <<>>
    /\ LET poll == Head(polls)
           n == poll.attempts + 1
       IN  IF ~poll.live \/ blobDoc = NULL \/ poll.idx \notin pages
           THEN /\ polls' = Append(Tail(polls), [poll EXCEPT !.attempts = n])
                /\ UNCHANGED scrolls
           ELSE /\ polls' = Tail(polls)
                /\ \E viewport \in BOOLEAN :
                      scrolls' = IF viewport THEN Append(scrolls, Scroll(poll.idx))
                                 ELSE scrolls
    /\ UNCHANGED <<rightPanel, pdfDocId, pendingPage, timers, mounted, chunkLoaded,
                   blobDoc, fetches, pages, jumps, reqs, exVars, chatVars>>

\* A tick that goes on polling until the scroll container is there too.
PollTickWaitsForViewport ==
    /\ polls # <<>>
    /\ LET poll == Head(polls)
           n == poll.attempts + 1
       IN  IF n > MaxAttempts
           THEN /\ polls' = Tail(polls)
                /\ UNCHANGED scrolls
           ELSE IF ~poll.live \/ blobDoc = NULL \/ poll.idx \notin pages
           THEN /\ polls' = Append(Tail(polls), [poll EXCEPT !.attempts = n])
                /\ UNCHANGED scrolls
           ELSE \E viewport \in BOOLEAN :
                   IF viewport
                   THEN /\ polls' = Tail(polls)
                        /\ scrolls' = Append(scrolls, Scroll(poll.idx))
                   ELSE /\ polls' = Append(Tail(polls), [poll EXCEPT !.attempts = n])
                        /\ UNCHANGED scrolls
    /\ UNCHANGED <<rightPanel, pdfDocId, pendingPage, timers, mounted, chunkLoaded,
                   blobDoc, fetches, pages, jumps, reqs, exVars, chatVars>>

\* One tick of a poll's interval.  All intervals have the same period, so
\* the polls tick in turn: `polls` is ordered by next tick, and a new poll's
\* first tick comes after the next tick of every poll there is.
\* containerRef.current is null while the viewer shows "Loading PDF..." and
\* after the viewer is unmounted.
PollTick ==
    /\ polls # <<>>
    /\ LET poll == Head(polls)
           n == poll.attempts + 1
       IN  IF n > MaxAttempts
           THEN /\ polls' = Tail(polls)
                /\ UNCHANGED scrolls
           ELSE IF ~poll.live \/ blobDoc = NULL \/ poll.idx \notin pages
           THEN /\ polls' = Append(Tail(polls), [poll EXCEPT !.attempts = n])
                /\ UNCHANGED scrolls
           ELSE /\ polls' = Tail(polls)
                /\ \E viewport \in BOOLEAN :
                      scrolls' = IF viewport THEN Append(scrolls, Scroll(poll.idx))
                                 ELSE scrolls
    /\ UNCHANGED <<rightPanel, pdfDocId, pendingPage, timers, mounted, chunkLoaded,
                   blobDoc, fetches, pages, jumps, reqs, exVars, chatVars>>

\* The blob fetch of the fileUrl effect returns: setBlobUrl; the Viewer
\* renders the new file from its first page.
BlobLoaded(d) ==
    /\ d \in fetches
    /\ fetches' = fetches \ {d}
    /\ blobDoc' = d
    /\ pages' = {}
    /\ UNCHANGED <<rightPanel, pdfDocId, pendingPage, timers, mounted, chunkLoaded,
                   polls, jumps, scrolls, reqs, exVars, chatVars>>

\* The blob fetch fails: .catch(console.error).
BlobFailed(d) ==
    /\ d \in fetches
    /\ fetches' = fetches \ {d}
    /\ UNCHANGED <<rightPanel, pdfDocId, pendingPage, timers, mounted, chunkLoaded,
                   blobDoc, pages, polls, jumps, scrolls, reqs, exVars, chatVars>>

\* The Viewer renders the layer of one more page.
PageRendered(i) ==
    /\ mounted
    /\ blobDoc # NULL
    /\ i \in PageIdx \ pages
    /\ pages' = pages \cup {i}
    /\ UNCHANGED <<rightPanel, pdfDocId, pendingPage, timers, mounted, chunkLoaded,
                   blobDoc, fetches, polls, jumps, scrolls, reqs, exVars, chatVars>>

(***************************************************************************)
(* ResearchPage: the citation router.                                      *)
(***************************************************************************)
\* The right panel renders the viewer: rightPanel === "pdf" && pdfDocId
Shown == rightPanel = "pdf" /\ pdfDocId # NULL

\* An effect whose cleanup leaves the timer of the previous run.
keepTimeout(ts) == ts

\* The cleanup of the pending-page effect: clearTimeout(timer) of the
\* previous run, the only timer there is.
clearTimeout(ts) == <<>>

\* The viewer leaves the tree: pdfRef.current is null, its state is gone, its
\* fetches set nothing any more; the intervals of its polls go on.
UnmountViewer ==
    /\ mounted' = FALSE
    /\ blobDoc' = NULL
    /\ fetches' = {}
    /\ pages' = {}
    /\ polls' = [i \in DOMAIN polls |-> [polls[i] EXCEPT !.live = FALSE]]

\* handleCitationClick(docId, pageNumber), with the render and the effects
\* that follow it.
handleCitationClick(d, p) ==
    /\ reqs' = Append(reqs, [doc |-> d, page |-> p, pend |-> pendingPage])
    /\ IF pdfDocId = d
       THEN /\ IF mounted THEN jumpToPage(PageIndex(p)) ELSE UNCHANGED <<jumps, polls>>
            /\ UNCHANGED <<rightPanel, pdfDocId, pendingPage, timers, mounted,
                           blobDoc, fetches, pages>>
       ELSE /\ pdfDocId' = d
            /\ pendingPage' = <<p>>
            /\ rightPanel' = "pdf"
            /\ timers' = Append(clearTimeout(timers), p)
            /\ mounted' = (mounted \/ chunkLoaded)
            /\ fetches' = IF mounted \/ chunkLoaded THEN fetches \cup {d} ELSE fetches
            /\ UNCHANGED <<blobDoc, pages, jumps, polls>>
    /\ UNCHANGED <<chunkLoaded, scrolls, exVars, chatVars>>

\* A timer that stays armed after its callback has run, as an interval does.
TimerFiresRepeats(i) ==
    /\ i \in 1..Len(timers)
    /\ IF mounted THEN jumpToPage(PageIndex(timers[i])) ELSE UNCHANGED <<jumps, polls>>
    /\ pendingPage' = <<>>
    /\ UNCHANGED <<rightPanel, pdfDocId, timers, mounted, chunkLoaded, blobDoc, fetches,
                   pages, scrolls, reqs, exVars, chatVars>>

\* The callback of the effect's setTimeout(..., 500).
TimerFires(i) ==
    /\ i \in 1..Len(timers)
    /\ IF mounted THEN jumpToPage(PageIndex(timers[i])) ELSE UNCHANGED <<jumps, polls>>
    /\ pendingPage' = <<>>
    /\ timers' = IF pendingPage = <<>> THEN RemoveAt(timers, i)
                 ELSE clearTimeout(RemoveAt(timers, i))
    /\ UNCHANGED <<rightPanel, pdfDocId, mounted, chunkLoaded, blobDoc, fetches,
                   pages, scrolls, reqs, exVars, chatVars>>

\* The "Corpus" button of the PDF header: setRightPanel("corpus").
ShowCorpus ==
    /\ Shown
    /\ rightPanel' = "corpus"
    /\ UnmountViewer
    /\ UNCHANGED <<pdfDocId, pendingPage, timers, chunkLoaded, jumps, scrolls,
                   reqs, exVars, chatVars>>

\* A close whose render leaves the timer of the pending-page effect armed.
closePdfKeepsTimer ==
    /\ Shown
    /\ rightPanel' = "corpus"
    /\ pdfDocId' = NULL
    /\ timers' = keepTimeout(timers)
    /\ UnmountViewer
    /\ UNCHANGED <<pendingPage, chunkLoaded, jumps, scrolls, reqs, exVars, chatVars>>

\* closePdf, with the render and the effects that follow it: the cleanup of
\* the pending-page effect runs, and its re-run arms nothing since pdfDocId
\* is null; pendingPage is not reset.
closePdf ==
    /\ Shown
    /\ rightPanel' = "corpus"
    /\ pdfDocId' = NULL
    /\ timers' = clearTimeout(timers)
    /\ UnmountViewer
    /\ UNCHANGED <<pendingPage, chunkLoaded, jumps, scrolls, reqs, exVars, chatVars>>

\* The page numbers a citation or a source link can carry: parseInt of the
\* digits after "p." in the page range, which may be 0.
CitedPages == Pages \cup {0}

\* The handlers of the document page (structure-tree selection, chat
\* citation, actionable source link) and of the history page (citation):
\* if (pdfRef.current && pageNumber >= 1) pdfRef.current.jumpToPage(pageNumber - 1).
\* The viewer of those pages is the one viewer of the model.
handleSourcePageClick(p) ==
    /\ reqs' = Append(reqs, [doc |-> pdfDocId, page |-> p, pend |-> pendingPage])
    /\ IF mounted /\ p >= 1 THEN jumpToPage(PageIndex(p)) ELSE UNCHANGED <<jumps, polls>>
    /\ UNCHANGED <<rightPanel, pdfDocId, pendingPage, timers, mounted, chunkLoaded,
                   blobDoc, fetches, pages, scrolls, exVars, chatVars>>

\* The dynamic import of the viewer resolves: the PdfViewer mounts, its
\* fileUrl effect starts the blob fetch.
ViewerMounts ==
    /\ Shown
    /\ ~mounted
    /\ mounted' = TRUE
    /\ chunkLoaded' = TRUE
    /\ fetches' = {pdfDocId}
    /\ UNCHANGED <<rightPanel, pdfDocId, pendingPage, timers, blobDoc, pages, polls,
                   jumps, scrolls, reqs, exVars, chatVars>>

(***************************************************************************)
(* ChatInterface / ResearchChat: the conversation correlator.  The two     *)
(* components have the same handlers; the scope is the document id or      *)
(* "research".                                                             *)
(***************************************************************************)
\* Conversation ids the server gives to new conversations, by turn.
NewConvIds == <<"c1", "c2", "c3", "c4">>

\* The conversations the scope has before the component mounts.
StoredConvs == <<"m1", "m0">>

\* The conversations of every scope before the component mounts: the second
\* document has none.
StoredByDoc == [d \in Docs |-> IF d = "docA" THEN StoredConvs ELSE <<>>]

Answers == {"ok", "fail"}

\* A request in flight: its kind, the conversation it names (for an answered
\* query: the conversation the answer names), the turn it carries, the
\* activeConvId and the docId its closure holds, and, once the server has
\* served it, whether it succeeded and the list it answers with.
Call(kind, conv, turn, active) ==
    [kind |-> kind, conv |-> conv, turn |-> turn, active |-> active,
     doc |-> chat.docId, served |-> FALSE, ok |-> FALSE, list |-> <<>>]

\* The messages of a stored conversation, mapped by mapToMessage.
History(c) == <<[role |-> "history", of |-> c]>>

Remove(s, c) == SelectSeq(s, LAMBDA x : x # c)

InSeq(s, c) == \E i \in 1..Len(s) : s[i] = c

\* The conversation the server files a turn under: the one named in the
\* request, or a new one when the request names none.
FiledUnder(c) ==
    IF c.conv = NULL THEN NewConvIds[c.turn] ELSE c.conv

Stored(conv) == \E d \in Docs : InSeq(srv[d], conv)

\* The scope a conversation is listed under: the one that holds it, or for a
\* new conversation the doc_id of the request.
HomeOf(conv, doc) ==
    IF Stored(conv) THEN CHOOSE d \in Docs : InSeq(srv[d], conv) ELSE doc

\* The server serves a request; its answer reaches the component later.
Serve(c, answer) ==
    /\ c \in calls
    /\ ~c.served
    /\ LET done == [c EXCEPT !.served = TRUE]
       IN  IF answer = "fail"
           THEN /\ calls' = (calls \ {c}) \cup {done}
                /\ UNCHANGED srv
           ELSE CASE c.kind \in {"list", "refresh"} ->
                       /\ calls' = (calls \ {c}) \cup {[done EXCEPT !.ok = TRUE, !.list = srv[c.doc]]}
                       /\ UNCHANGED srv
                  [] c.kind \in {"hydrate", "select"} ->
                       /\ calls' = (calls \ {c}) \cup {[done EXCEPT !.ok = Stored(c.conv)]}
                       /\ UNCHANGED srv
                  [] c.kind = "delete" ->
                       /\ calls' = (calls \ {c}) \cup {[done EXCEPT !.ok = TRUE]}
                       /\ srv' = [d \in Docs |-> Remove(srv[d], c.conv)]
                  [] OTHER ->
                       /\ calls' = (calls \ {c})
                                      \cup {[done EXCEPT !.ok = TRUE, !.conv = FiledUnder(c)]}
                       /\ srv' = [srv EXCEPT ![HomeOf(FiledUnder(c), c.doc)] =
                                      <<FiledUnder(c)>> \o Remove(@, FiledUnder(c))]
    /\ UNCHANGED <<chat, turns, clicks, exVars, navVars>>

\* The list fetch of the mount effect returns.
ListReturn(c) ==
    /\ c \in calls
    /\ c.kind = "list"
    /\ c.served
    /\ IF ~c.ok
       THEN /\ chat' = [chat EXCEPT !.loadingHistory = FALSE]
            /\ calls' = calls \ {c}
       ELSE IF c.list = <<>>
       THEN /\ chat' = [chat EXCEPT !.conversations = c.list, !.loadingHistory = FALSE]
            /\ calls' = calls \ {c}
       ELSE /\ chat' = [chat EXCEPT !.conversations = c.list, !.activeConvId = c.list[1]]
            /\ calls' = (calls \ {c}) \cup {Call("hydrate", c.list[1], 0, NULL)}
    /\ UNCHANGED <<srv, turns, clicks, exVars, navVars>>

\* fetchConversation of the mount effect returns.
HydrateReturn(c) ==
    /\ c \in calls
    /\ c.kind = "hydrate"
    /\ c.served
    /\ calls' = calls \ {c}
    /\ chat' = IF c.ok
               THEN [chat EXCEPT !.messages = History(c.conv), !.loadingHistory = FALSE]
               ELSE [chat EXCEPT !.loadingHistory = FALSE]
    /\ UNCHANGED <<srv, turns, clicks, exVars, navVars>>

\* The docId prop changes on the mounted chat: the cleanup of the load effect
\* sets `cancelled` for the load in flight, whose continuations then return
\* at once, and the effect runs again for the new document.
ChangeScope(d) ==
    /\ d # chat.docId
    /\ chat.switches < MaxSwitches
    /\ chat' = [chat EXCEPT !.docId = d, !.switches = @ + 1, !.loadingHistory = TRUE]
    /\ calls' = {c \in calls : c.kind \notin {"list", "hydrate"}}
                   \cup {[Call("list", NULL, 0, NULL) EXCEPT !.doc = d]}
    /\ UNCHANGED <<srv, turns, clicks, exVars, navVars>>

\* handleSelectConversation up to its await.
handleSelectConversation(convId) ==
    /\ clicks < MaxClicks
    /\ InSeq(chat.conversations, convId)
    /\ convId # chat.activeConvId
    /\ clicks' = clicks + 1
    /\ chat' = [chat EXCEPT !.activeConvId = convId, !.messages = <<>>,
                            !.loadingHistory = TRUE]
    /\ calls' = calls \cup {Call("select", convId, 0, NULL)}
    /\ UNCHANGED <<srv, turns, exVars, navVars>>

\* handleSelectConversation after its await.
SelectReturn(c) ==
    /\ c \in calls
    /\ c.kind = "select"
    /\ c.served
    /\ calls' = calls \ {c}
    /\ chat' = IF c.ok
               THEN [chat EXCEPT !.messages = History(c.conv), !.loadingHistory = FALSE]
               ELSE [chat EXCEPT !.loadingHistory = FALSE]
    /\ UNCHANGED <<srv, turns, clicks, exVars, navVars>>

handleNewChat ==
    /\ clicks < MaxClicks
    /\ clicks' = clicks + 1
    /\ chat' = [chat EXCEPT !.activeConvId = NULL, !.messages = <<>>]
    /\ UNCHANGED <<srv, calls, turns, exVars, navVars>>

\* handleDeleteConversation up to its await; the closure holds activeConvId.
handleDeleteConversation(convId) ==
    /\ clicks < MaxClicks
    /\ InSeq(chat.conversations, convId)
    /\ clicks' = clicks + 1
    /\ calls' = calls \cup {Call("delete", convId, 0, chat.activeConvId)}
    /\ UNCHANGED <<chat, srv, turns, exVars, navVars>>

\* A delete that resets the chat whichever session it removed.
DeleteReturnAlwaysResets(c) ==
    /\ c \in calls
    /\ c.kind = "delete"
    /\ c.served
    /\ calls' = calls \ {c}
    /\ chat' =
          IF ~c.ok THEN chat
          ELSE [chat EXCEPT !.conversations = Remove(@, c.conv),
                            !.activeConvId = NULL, !.messages = <<>>]
    /\ UNCHANGED <<srv, turns, clicks, exVars, navVars>>

\* handleDeleteConversation after its await.
DeleteReturn(c) ==
    /\ c \in calls
    /\ c.kind = "delete"
    /\ c.served
    /\ calls' = calls \ {c}
    /\ chat' =
          IF ~c.ok THEN chat
          ELSE LET listed == [chat EXCEPT !.conversations = Remove(@, c.conv)]
               IN  IF c.conv = c.active
                   THEN [listed EXCEPT !.activeConvId = NULL, !.messages = <<>>]
                   ELSE listed
    /\ UNCHANGED <<srv, turns, clicks, exVars, navVars>>

\* handleSubmit up to its await: the optimistic user turn, and the request
\* with conv_id: activeConvId || undefined.
handleSubmit ==
    /\ ~chat.loading
    /\ Len(turns) < MaxTurns
    /\ chat' = [chat EXCEPT !.messages = Append(@, [role |-> "user", of |-> NULL]),
                            !.loading = TRUE]
    /\ calls' = calls \cup {Call("query", chat.activeConvId, Len(turns) + 1,
                                 chat.activeConvId)}
    /\ turns' = Append(turns, [sent |-> chat.activeConvId, got |-> NULL,
                               epoch |-> clicks])
    /\ UNCHANGED <<srv, clicks, exVars, navVars>>

\* handleSubmit after its await.  The catch appends a message of role
\* 'assistant' that holds an apology (no conversation: of is NULL).
QueryReturn(c) ==
    /\ c \in calls
    /\ c.kind = "query"
    /\ c.served
    /\ IF ~c.ok
       THEN /\ chat' = [chat EXCEPT
                           !.messages = Append(@, [role |-> "assistant", of |-> NULL]),
                           !.loading = FALSE]
            /\ calls' = calls \ {c}
            /\ UNCHANGED turns
       ELSE /\ turns' = [turns EXCEPT ![c.turn].got = c.conv]
            /\ chat' = [chat EXCEPT
                           !.messages = Append(@, [role |-> "assistant", of |-> c.conv]),
                           !.activeConvId = IF c.active = NULL THEN c.conv ELSE @,
                           !.loading = FALSE]
            /\ calls' = (calls \ {c})
                           \cup {[Call("refresh", NULL, c.turn, NULL) EXCEPT !.doc = c.doc]}
    /\ UNCHANGED <<srv, clicks, exVars, navVars>>

\* The list refresh started after an answer returns.
RefreshReturn(c) ==
    /\ c \in calls
    /\ c.kind = "refresh"
    /\ c.served
    /\ calls' = calls \ {c}
    /\ chat' = IF c.ok THEN [chat EXCEPT !.conversations = c.list] ELSE chat
    /\ UNCHANGED <<srv, turns, clicks, exVars, navVars>>

(***************************************************************************)
(* Specifications.                                                         *)
(***************************************************************************)
\* The research page as it first renders: the corpus list, no document.
InitPage ==
    /\ rightPanel = "corpus"
    /\ pdfDocId = NULL
    /\ pendingPage = <<>>
    /\ timers = <<>>
    /\ mounted = FALSE
    /\ chunkLoaded = FALSE
    /\ blobDoc = NULL
    /\ fetches = {}
    /\ pages = {}
    /\ polls = <<>>
    /\ jumps = <<>>
    /\ scrolls = <<>>
    /\ reqs = <<>>

\* The chat as it first renders, its mount effect run up to the list fetch.
InitChat ==
    /\ chat = [docId |-> "docA", switches |-> 0, activeConvId |-> NULL,
               messages |-> <<>>, loading |-> FALSE, loadingHistory |-> TRUE,
               conversations |-> <<>>]
    /\ srv = StoredByDoc
    /\ calls = {Call("list", NULL, 0, NULL)}
    /\ turns = <<>>
    /\ clicks = 0

Init ==
    /\ inst = 1
    /\ navs = 1
    /\ docId = "docA"
    /\ panel = FreshPanel
    /\ jobs = <<>>
    /\ loads = {[inst |-> 1, doc |-> docId]}
    /\ InitPage
    /\ InitChat

\* The panel's life: mounts, document changes, loads and streaming calls whose
\* bodies arrive a record at a time or all at once.
Next ==
    \/ \E d \in Docs : MountPanel(d)
    \/ UnmountPanel
    \/ \E d \in Docs : ChangeDoc(d)
    \/ \E l \in loads, a \in LoadAnswers : LoadReturn(l, a)
    \/ handleExtract
    \/ \E j \in 1..Len(jobs) :
          jobs[j].pc = "fetch" /\ \E resp \in ShortResponses : FetchReturn(j, resp)
    \/ \E j \in 1..Len(jobs) : \E n \in {RecLen, Len(jobs[j].rest)} : ReadChunk(j, n)
    \/ \E j \in 1..Len(jobs) : ReadDone(j)

Spec == Init /\ [][Next]_vars

\* One streaming call of a panel that has loaded, on every framed stream, cut
\* into chunks at every place.
InitDecoder ==
    /\ inst = 1
    /\ navs = 1
    /\ docId = "docA"
    /\ panel = [FreshPanel EXCEPT !.result = "saved", !.loading = FALSE]
    /\ jobs = <<>>
    /\ loads = {}
    /\ InitPage
    /\ InitChat

NextDecoder ==
    \/ Len(jobs) = 0 /\ handleExtract
    \/ \E j \in 1..Len(jobs) :
          jobs[j].pc = "fetch" /\ \E resp \in DecoderResponses : FetchReturn(j, resp)
    \/ \E j \in 1..Len(jobs) : \E n \in 1..Len(jobs[j].rest) : ReadChunk(j, n)
    \/ \E j \in 1..Len(jobs) : ReadDone(j)

SpecDecoder == InitDecoder /\ [][NextDecoder]_vars

\* The reducer alone: handleExtract has started a call, the call reads its
\* stream, and onProgress is called with events in any order.  The text of
\* the body is left out.
InitReducer ==
    /\ inst = 1
    /\ navs = 1
    /\ docId = "docA"
    /\ panel = [FreshPanel EXCEPT !.result = "saved", !.loading = FALSE,
                                  !.extracting = TRUE]
    /\ jobs = <<[inst |-> 1, pc |-> "reading", opened |-> TRUE,
                 stream |-> <<>>, rest |-> <<>>, buffer |-> <<>>,
                 final |-> NULL, delivered |-> <<>>, value |-> NULL,
                 late |-> FALSE, cut |-> FALSE]>>
    /\ loads = {}
    /\ InitPage
    /\ InitChat

NextReducer ==
    \E e \in ProgressEvents : Len(jobs[1].delivered) < MaxEvents /\ onProgress(1, e)

SpecReducer == InitReducer /\ [][NextReducer]_vars

\* The number of batch_start events of a sequence of events.
RECURSIVE BatchesStarted(_)
BatchesStarted(es) ==
    IF es = <<>> THEN 0
    ELSE (IF Head(es).event = "batch_start" THEN 1 ELSE 0) + BatchesStarted(Tail(es))

\* The event e may follow the events es in the order of the protocol: start,
\* prefilter_done, batches_planned, pairs of batch_start and batch_done,
\* validation_start, validation_done, complete.
Follows(es, e) ==
    IF es = <<>> THEN e.event = "start"
    ELSE LET last == es[Len(es)]
         IN  CASE last.event = "start" -> e.event = "prefilter_done"
               [] last.event = "prefilter_done" -> e.event = "batches_planned"
               [] last.event = "batches_planned" ->
                     e.event \in {"batch_start", "validation_start"}
               [] last.event = "batch_start" ->
                     /\ e.event = "batch_done"
                     /\ (Has(e, "batch") /\ Has(last, "batch")) => e.batch = last.batch
               [] last.event = "batch_done" ->
                     \/ e.event = "batch_start" /\ BatchesStarted(es) < MaxBatches
                     \/ e.event = "validation_start"
               [] last.event = "validation_start" -> e.event = "validation_done"
               [] last.event = "validation_done" -> e.event = "complete"
               [] OTHER -> FALSE

\* The reducer fed in protocol order; the stream may stop after any event.
NextProtocol ==
    \E e \in ProgressEvents : Follows(jobs[1].delivered, e) /\ onProgress(1, e)

SpecProtocol == InitReducer /\ [][NextProtocol]_vars

\* The research page: citation clicks, the panel's buttons, the deferred
\* timer, and the viewer's mount and blob.
NextNav ==
    \/ Len(reqs) < MaxRequests /\ \E d \in Docs, p \in Pages : handleCitationClick(d, p)
    \/ \E i \in 1..Len(timers) : TimerFires(i)
    \/ ShowCorpus
    \/ closePdf
    \/ ViewerMounts
    \/ \E d \in fetches : BlobLoaded(d)
    \/ \E d \in fetches : BlobFailed(d)

SpecNav == Init /\ [][NextNav]_vars

\* Every producer of jumps, with the page numbers citations can carry.
NextCite ==
    \/ Len(reqs) < MaxRequests /\
          \E d \in Docs, p \in CitedPages : handleCitationClick(d, p)
    \/ Len(reqs) < MaxRequests /\ \E p \in CitedPages : handleSourcePageClick(p)
    \/ \E i \in 1..Len(timers) : TimerFires(i)
    \/ ViewerMounts
    \/ closePdf

SpecCite == Init /\ [][NextCite]_vars

\* The viewer's handle.  The page shows docA: a citation was clicked, the
\* timer fired before the viewer's code had loaded, then the viewer mounted.
InitHandle ==
    /\ inst = 1
    /\ navs = 1
    /\ docId = "docA"
    /\ panel = FreshPanel
    /\ jobs = <<>>
    /\ loads = {[inst |-> 1, doc |-> docId]}
    /\ InitChat
    /\ rightPanel = "pdf"
    /\ pdfDocId = "docA"
    /\ pendingPage = <<>>
    /\ timers = <<>>
    /\ mounted = TRUE
    /\ chunkLoaded = TRUE
    /\ blobDoc = NULL
    /\ fetches = {"docA"}
    /\ pages = {}
    /\ polls = <<>>
    /\ jumps = <<>>
    /\ scrolls = <<>>
    /\ reqs \in {<<[doc |-> "docA", page |-> p, pend |-> <<>>]>> : p \in Pages}

\* Citations of the shown document are clicked; the blob arrives, pages are
\* rendered, the polls tick.
NextHandle ==
    \/ Len(reqs) <= MaxJumps /\ \E p \in Pages : handleCitationClick(pdfDocId, p)
    \/ \E d \in fetches : BlobLoaded(d)
    \/ \E i \in PageIdx : PageRendered(i)
    \/ PollTick

SpecHandle == InitHandle /\ [][NextHandle]_vars

\* The polls of the handle while the viewer is shown and after it has left
\* the tree (the Corpus button, the close button).  The browser fires the
\* callback of a live interval again and again.
NextPoll ==
    \/ Shown /\ Len(jumps) < MaxPolls /\ \E p \in Pages : handleCitationClick(pdfDocId, p)
    \/ \E d \in fetches : BlobLoaded(d)
    \/ \E i \in PageIdx : PageRendered(i)
    \/ PollTick
    \/ ShowCorpus
    \/ closePdf

SpecPoll == InitHandle /\ [][NextPoll]_vars /\ WF_vars(PollTick)

\* The chat: turns, the session list's clicks, and the answers of the server.
NextChat ==
    \/ handleSubmit
    \/ handleNewChat
    \/ \E c \in {"m0", "m1", "c1"} : handleSelectConversation(c)
    \/ \E c \in {"m0", "m1", "c1"} : handleDeleteConversation(c)
    \/ \E c \in calls, a \in Answers : Serve(c, a)
    \/ \E c \in calls : ListReturn(c)
    \/ \E c \in calls : HydrateReturn(c)
    \/ \E c \in calls : SelectReturn(c)
    \/ \E c \in calls : DeleteReturn(c)
    \/ \E c \in calls : QueryReturn(c)
    \/ \E c \in calls : RefreshReturn(c)

SpecChat == Init /\ [][NextChat]_vars

\* The loads of the chat, at its mount in a scope with sessions or in one
\* without and after a change of its document, with the user's clicks on the
\* sidebar.  Every request is answered or fails
\* in the end, and the continuation of a settled promise runs.
InitLoad ==
    /\ inst = 1
    /\ navs = 1
    /\ docId = "docA"
    /\ panel = FreshPanel
    /\ jobs = <<>>
    /\ loads = {[inst |-> 1, doc |-> docId]}
    /\ InitPage
    /\ \E d \in Docs :
          chat = [docId |-> d, switches |-> 0, activeConvId |-> NULL,
                  messages |-> <<>>, loading |-> FALSE, loadingHistory |-> TRUE,
                  conversations |-> <<>>]
    /\ srv = StoredByDoc
    /\ calls = {Call("list", NULL, 0, NULL)}
    /\ turns = <<>>
    /\ clicks = 0

Network ==
    \/ \E c \in calls, a \in Answers : Serve(c, a)
    \/ \E c \in calls : ListReturn(c)
    \/ \E c \in calls : HydrateReturn(c)
    \/ \E c \in calls : SelectReturn(c)
    \/ \E c \in calls : DeleteReturn(c)

NextLoad ==
    \/ Network
    \/ \E d \in Docs : ChangeScope(d)
    \/ handleNewChat
    \/ \E c \in {"m0", "m1"} : handleSelectConversation(c)
    \/ \E c \in {"m0", "m1"} : handleDeleteConversation(c)

SpecLoad == InitLoad /\ [][NextLoad]_vars /\ WF_vars(Network)

\* The chat of a document page whose document can change.
NextScope ==
    \/ NextChat
    \/ \E d \in Docs : ChangeScope(d)

SpecScope == Init /\ [][NextScope]_vars

(***************************************************************************)
(* Properties of the decoder (SpecDecoder).                                *)
(***************************************************************************)
Settled(jb) == jb.pc \in {"resolved", "rejected"}

\* What the call does with a body that arrives as one chunk followed by the
\* end of the stream: the events it hands to onProgress and how it settles.
WholeRun(stream) ==
    LET r == IF stream = <<>>
             THEN [buffer |-> <<>>, final |-> NULL, out |-> <<>>, thrown |-> NULL]
             ELSE ProcessChunk(<<>>, NULL, stream)
    IN  [delivered |-> r.out,
         pc |-> IF r.thrown = NULL /\ r.final # NULL THEN "resolved" ELSE "rejected",
         value |-> IF r.thrown # NULL THEN r.thrown
                   ELSE IF r.final # NULL THEN r.final
                   ELSE ENDED_WITHOUT_RESULT]

\* C1: however the body of a response is cut into chunks, a call that has
\* settled has handed onProgress the same events in the same order, and has
\* settled in the same way with the same result or message, as the call that
\* receives the same body as a single chunk.
C1_ChunkingIrrelevant ==
    \A j \in 1..Len(jobs) :
        (jobs[j].opened /\ Settled(jobs[j])) =>
            LET w == WholeRun(jobs[j].stream)
            IN  /\ jobs[j].delivered = w.delivered
                /\ jobs[j].pc = w.pc
                /\ jobs[j].value = w.value

\* A call has settled after a read that ended inside a record, and it handed
\* at least two events to onProgress.
C1_Witness ==
    \E j \in 1..Len(jobs) :
        /\ jobs[j].opened /\ Settled(jobs[j])
        /\ jobs[j].cut
        /\ Len(jobs[j].delivered) >= 2

NoComplete(es) == \A i \in 1..Len(es) : es[i].event # "complete"

\* C2: when the transport signals the end of the stream and no complete record
\* has been delivered, the call rejects (it returns no result), and the panel
\* that started it ends with an error set, not extracting, and with the result
\* it had stored before.
C2_EndWithoutComplete ==
    [][\A j \in 1..Len(jobs) :
          (ReadDone(j) /\ NoComplete(jobs[j].delivered)) =>
              /\ jobs'[j].pc = "rejected"
              /\ jobs'[j].value = ENDED_WITHOUT_RESULT
              /\ OwnsPanel(j) =>
                    /\ panel'.error = ENDED_WITHOUT_RESULT
                    /\ ~panel'.extracting
                    /\ panel'.result = panel.result]_vars

\* The stream stopped after validation_start: the call has rejected, the panel
\* shows the error over the result it had.
C2_Witness ==
    \E j \in 1..Len(jobs) :
        /\ jobs[j].pc = "rejected"
        /\ jobs[j].value = ENDED_WITHOUT_RESULT
        /\ jobs[j].delivered # <<>>
        /\ jobs[j].delivered[Len(jobs[j].delivered)].event = "validation_start"
        /\ OwnsPanel(j)
        /\ panel.error = ENDED_WITHOUT_RESULT
        /\ panel.result = "saved"
        /\ panel.progress.stage = "validating"

\* The event objects of the segments of a text that are records, in order,
\* whatever their tags.
RECURSIVE RecordsOfParts(_)
RecordsOfParts(parts) ==
    IF parts = <<>> THEN <<>>
    ELSE LET line == Trim(Head(parts))
         IN  (IF StartsWithData(line) /\ JsonParses(Slice6(line))
              THEN <<JsonParse(Slice6(line))>> ELSE <<>>)
                 \o RecordsOfParts(Tail(parts))

RecordsOf(text) ==
    LET parts == Split(text) IN RecordsOfParts(SubSeq(parts, 1, Len(parts) - 1))

\* The index of the first error record of a sequence of events (0: none).
RECURSIVE FirstError(_, _)
FirstError(es, i) ==
    IF i > Len(es) THEN 0
    ELSE IF es[i].event = "error" THEN i
    ELSE FirstError(es, i + 1)

Consumed(jb) == SubSeq(jb.stream, 1, Len(jb.stream) - Len(jb.rest))

\* C3: a call never hands an error record to onProgress; once the records it
\* has read hold an error record the call has rejected, with that record's
\* message (or the default one), and onProgress has received exactly the
\* records before the error record: none after it; the panel's progress is
\* the reducer applied to those.
C3_ErrorRecordFails ==
    \A j \in 1..Len(jobs) :
        LET jb == jobs[j]
            seen == RecordsOf(IF Settled(jb) THEN jb.stream ELSE Consumed(jb))
            k == FirstError(seen, 1)
        IN  /\ FirstError(jb.delivered, 1) = 0
            /\ (jb.opened /\ jb.pc = "reading") => FirstError(seen, 1) = 0
            /\ (jb.opened /\ Settled(jb) /\ k # 0) =>
                   /\ jb.pc = "rejected"
                   /\ jb.value = IF Has(seen[k], "message") THEN seen[k].message
                                 ELSE "Extraction failed"
                   /\ jb.delivered = SubSeq(seen, 1, k - 1)
                   /\ OwnsPanel(j) =>
                         /\ panel.progress = applyAll(INITIAL_PROGRESS, SubSeq(seen, 1, k - 1))
                         /\ panel.error = jb.value

\* A call has rejected with the message of an error record that came after
\* delivered records and before further records.
C3_Witness ==
    \E j \in 1..Len(jobs) :
        /\ jobs[j].pc = "rejected"
        /\ jobs[j].value = "LLM quota exceeded"
        /\ jobs[j].delivered # <<>>
        /\ Len(RecordsOf(jobs[j].stream)) > Len(jobs[j].delivered) + 1

\* The events of the sequence start(50), prefilter_done(12, 50),
\* batches_planned(3), batch_start(1, ["A"]), batch_done(1, 4, 4).
FirstBatchEvents ==
    <<JsonObject("start50"), JsonObject("prefilter12"), JsonObject("planned3"),
      JsonObject("bstart1"), JsonObject("bdone1")>>

FirstBatchProgress(p) ==
    /\ p.stage = "extracting"
    /\ p.currentBatch = 1
    /\ p.cumulativeActionables = 4
    /\ p.totalBatches = 3
    /\ p.candidateCount = 12
    /\ p.lastBatchActionables = 4

\* C7: when the events handed to onProgress since the call started (from the
\* initial ExtractionProgress) are start(50), prefilter_done(12, 50),
\* batches_planned(3), batch_start(1, ["A"]), batch_done(1, 4, 4), the
\* panel's progress has stage extracting, current batch 1, cumulative count 4,
\* total batches 3, candidate count 12 and last-batch count 4.
C7_FirstBatchSequence ==
    /\ FirstBatchProgress(applyAll(INITIAL_PROGRESS, FirstBatchEvents))
    /\ \A j \in 1..Len(jobs) :
          (OwnsPanel(j) /\ jobs[j].delivered = FirstBatchEvents) =>
              FirstBatchProgress(panel.progress)

\* A call is still reading after it delivered exactly those five events.
C7_Witness ==
    \E j \in 1..Len(jobs) :
        /\ OwnsPanel(j)
        /\ jobs[j].pc = "reading"
        /\ jobs[j].delivered = FirstBatchEvents
        /\ panel.progress.totalNodes = 50

\* C11: when the start request answers with a non-success status the call
\* rejects at once, before it opens or reads any stream and without a call of
\* onProgress; its reason is the detail of the response body when the body
\* parses and carries a (non-empty) detail, else 'Actionable extraction
\* failed'.
C11_StartFailure ==
    [][\A j \in 1..Len(jobs) : \A resp \in DecoderResponses :
          (resp.kind = "notok" /\ FetchReturn(j, resp)) =>
              /\ jobs'[j].pc = "rejected"
              /\ ~jobs'[j].opened
              /\ jobs'[j].delivered = <<>>
              /\ jobs'[j].value \in {resp.detail, "Actionable extraction failed"}
              /\ (jobs'[j].value = "Actionable extraction failed")
                     = (resp.detail \in {NULL, "", "Actionable extraction failed"})
              /\ OwnsPanel(j) => panel'.progress = panel.progress]_vars

\* A call has failed to start with the detail of the response.
C11_Witness ==
    \E j \in 1..Len(jobs) :
        /\ jobs[j].pc = "rejected"
        /\ ~jobs[j].opened
        /\ jobs[j].value = "Document not found"
        /\ jobs[j].delivered = <<>>
        /\ panel.error = "Document not found"
        /\ panel.progress = INITIAL_PROGRESS

StartsWith(text, f) == Len(text) >= Len(f) /\ SubSeq(text, 1, Len(f)) = f

\* A body read as a run of whole records, each well-formed or malformed:
\* ok says whether the body is such a run, events are the well-formed
\* records' events in order, bad counts the malformed records.
RECURSIVE RecordLayout(_)
RecordLayout(text) ==
    IF text = <<>> THEN [ok |-> TRUE, events |-> <<>>, bad |-> 0]
    ELSE IF StartsWith(text, MalformedRec)
    THEN LET r == RecordLayout(SubSeq(text, Len(MalformedRec) + 1, Len(text)))
         IN  [r EXCEPT !.bad = @ + 1]
    ELSE IF Len(text) >= RecLen /\ text[4] \in JsonNames /\ StartsWith(text, Rec(text[4]))
    THEN LET r == RecordLayout(SubSeq(text, RecLen + 1, Len(text)))
         IN  [r EXCEPT !.events = <<JsonObject(text[4])>> \o @]
    ELSE [ok |-> FALSE, events |-> <<>>, bad |-> 0]

Completes(es) ==
    \E i \in 1..Len(es) : es[i].event = "complete" /\ Has(es[i], "result")

\* C12: a record whose payload does not parse is skipped and does not fail
\* the call: of a body made of whole records, some of them malformed and none
\* an error record, a settled call has handed onProgress every well-formed
\* record, those before and those after the malformed ones, in order; it has
\* resolved when a complete record with a result is among them, and has
\* otherwise failed only for the missing result.
C12_MalformedRecordSkipped ==
    \A j \in 1..Len(jobs) :
        LET jb == jobs[j]
            l == RecordLayout(jb.stream)
        IN  (jb.opened /\ Settled(jb) /\ l.ok /\ l.bad > 0 /\ FirstError(l.events, 1) = 0) =>
                /\ jb.delivered = l.events
                /\ Completes(l.events) => jb.pc = "resolved"
                /\ ~Completes(l.events) =>
                       jb.pc = "rejected" /\ jb.value = ENDED_WITHOUT_RESULT

\* A call has resolved on a body whose malformed record stands between
\* well-formed records and before the complete record.
C12_Witness ==
    \E j \in 1..Len(jobs) :
        /\ jobs[j].pc = "resolved"
        /\ jobs[j].stream = Ser(<<"start50">>) \o MalformedRec
                               \o Ser(<<"prefilter12", "complete">>)
        /\ Len(jobs[j].delivered) = 3
        /\ jobs[j].delivered[1].event = "start"
        /\ jobs[j].delivered[3].event = "complete"

\* A line that does not start with 'data: ': an SSE comment.
CommentLine == <<":", NL>>

\* A body read as a run of comment lines, blank lines and whole well-formed
\* records: ok says whether the body is such a run, events are the records'
\* events in order, comments counts the comment lines.
RECURSIVE LineLayout(_)
LineLayout(text) ==
    IF text = <<>> THEN [ok |-> TRUE, events |-> <<>>, comments |-> 0]
    ELSE IF StartsWith(text, CommentLine)
    THEN LET r == LineLayout(SubSeq(text, Len(CommentLine) + 1, Len(text)))
         IN  [r EXCEPT !.comments = @ + 1]
    ELSE IF Head(text) = NL
    THEN LineLayout(Tail(text))
    ELSE IF Len(text) >= RecLen /\ text[4] \in JsonNames /\ StartsWith(text, Rec(text[4]))
    THEN LET r == LineLayout(SubSeq(text, RecLen + 1, Len(text)))
         IN  [r EXCEPT !.events = <<JsonObject(text[4])>> \o @]
    ELSE [ok |-> FALSE, events |-> <<>>, comments |-> 0]

\* C13: lines that do not start with 'data: ' are ignored and cost no record:
\* of a body made of comment lines, blank lines and whole well-formed records
\* (none an error record), a settled call has handed onProgress every record,
\* also the record whose data line directly follows a comment line inside the
\* same segment, and it has not failed when a complete record with a result
\* is among them.
C13_OtherLinesIgnored ==
    \A j \in 1..Len(jobs) :
        LET jb == jobs[j]
            l == LineLayout(jb.stream)
        IN  (jb.opened /\ Settled(jb) /\ l.ok /\ l.comments > 0
                 /\ FirstError(l.events, 1) = 0) =>
                /\ jb.delivered = l.events
                /\ Completes(l.events) => jb.pc = "resolved"

\* A call has settled on a body with a keep-alive comment in a segment of its
\* own next to a record, and has delivered the record.
C13_Witness ==
    \E j \in 1..Len(jobs) :
        /\ jobs[j].pc = "resolved"
        /\ jobs[j].stream = CommentLine \o <<NL>> \o Rec("complete")
        /\ Len(jobs[j].delivered) = 1

NoTerminator(text) ==
    \A i \in 1..(Len(text) - 1) : ~(text[i] = NL /\ text[i + 1] = NL)

EndsWithTerminator(text) ==
    Len(text) >= 2 /\ text[Len(text) - 1] = NL /\ text[Len(text)] = NL

\* Of a body that is a run of whole records, the events of the well-formed
\* records whose terminator lies within the first n characters.
RECURSIVE EndedRecords(_, _)
EndedRecords(text, n) ==
    IF StartsWith(text, MalformedRec)
    THEN IF n < Len(MalformedRec) THEN <<>>
         ELSE EndedRecords(SubSeq(text, Len(MalformedRec) + 1, Len(text)),
                           n - Len(MalformedRec))
    ELSE IF Len(text) >= RecLen /\ text[4] \in JsonNames /\ StartsWith(text, Rec(text[4]))
    THEN IF n < RecLen THEN <<>>
         ELSE <<JsonObject(text[4])>>
                  \o EndedRecords(SubSeq(text, RecLen + 1, Len(text)), n - RecLen)
    ELSE <<>>

\* C14: while a call reads, its buffer is the end of the text read so far, it
\* holds no '\n\n', and the text before it is empty or ends with '\n\n': the
\* text after the last terminator is kept and not delivered.  onProgress has
\* received the records of the terminated segments only, each once: of a body
\* of whole records, exactly those whose terminator has been read.
C14_OnlyTerminatedSegments ==
    \A j \in 1..Len(jobs) :
        LET jb == jobs[j]
            c == Consumed(jb)
            l == RecordLayout(jb.stream)
        IN  (jb.opened /\ jb.pc = "reading") =>
                /\ Len(jb.buffer) <= Len(c)
                /\ jb.buffer = SubSeq(c, Len(c) - Len(jb.buffer) + 1, Len(c))
                /\ NoTerminator(jb.buffer)
                /\ LET before == SubSeq(c, 1, Len(c) - Len(jb.buffer))
                   IN  before = <<>> \/ EndsWithTerminator(before)
                /\ jb.delivered = RecordsOf(c)
                /\ (l.ok /\ FirstError(l.events, 1) = 0) =>
                       jb.delivered = EndedRecords(jb.stream, Len(c))

\* A call is reading a body of whole records and has stopped inside the
\* third record: two records are delivered, the start of the third is kept.
C14_Witness ==
    \E j \in 1..Len(jobs) :
        /\ jobs[j].opened /\ jobs[j].pc = "reading"
        /\ RecordLayout(jobs[j].stream).ok
        /\ Len(jobs[j].delivered) = 2
        /\ Len(jobs[j].buffer) = RecLen - 1
        /\ jobs[j].rest # <<>>

\* C15: the records are applied to the panel's ExtractionProgress in the
\* order in which they arrive: the progress is the reducer applied, from the
\* initial snapshot, to the events handed to onProgress in their order, and
\* for a body of whole records these are the first records of the body in
\* the body's order, wherever the chunk boundaries fall.
C15_AppliedInArrivalOrder ==
    \A j \in 1..Len(jobs) :
        LET jb == jobs[j]
            l == RecordLayout(jb.stream)
        IN  (jb.opened /\ OwnsPanel(j)) =>
                /\ panel.progress = applyAll(INITIAL_PROGRESS, jb.delivered)
                /\ l.ok =>
                      /\ Len(jb.delivered) <= Len(l.events)
                      /\ jb.delivered = Prefix(l.events, Len(jb.delivered))

\* A call that was cut inside a record is still reading the whole job's body
\* and has applied its first eight records: the panel is validating.
C15_Witness ==
    \E j \in 1..Len(jobs) :
        /\ jobs[j].opened /\ jobs[j].pc = "reading" /\ OwnsPanel(j)
        /\ jobs[j].stream = Ser(FullJob)
        /\ jobs[j].cut
        /\ Len(jobs[j].delivered) = 8
        /\ panel.progress.stage = "validating"
        /\ panel.progress.currentBatch = 2

\* The index of the first complete or error record of a sequence of events
\* (0: none).
RECURSIVE FirstTerminal(_, _)
FirstTerminal(es, i) ==
    IF i > Len(es) THEN 0
    ELSE IF es[i].event \in {"complete", "error"} THEN i
    ELSE FirstTerminal(es, i + 1)

\* C23 as the specification states it: once the complete record or the error
\* record of a stream has been processed, the records after it have no
\* effect: onProgress receives none of them, so the panel's progress is the
\* reducer applied to the records up to it; a call whose complete record
\* carried a result returns that result, and does not fail.
C23_NothingAfterTerminalRecord ==
    \A j \in 1..Len(jobs) :
        LET jb == jobs[j]
            seen == RecordsOf(jb.stream)
            k == FirstTerminal(seen, 1)
            upto == IF k = 0 THEN <<>>
                    ELSE IF seen[k].event = "error" THEN SubSeq(seen, 1, k - 1)
                    ELSE SubSeq(seen, 1, k)
        IN  (jb.opened /\ Settled(jb) /\ k # 0) =>
                /\ jb.delivered = upto
                /\ OwnsPanel(j) => panel.progress = applyAll(INITIAL_PROGRESS, upto)
                /\ (seen[k].event = "complete" /\ Has(seen[k], "result")) =>
                       /\ jb.pc = "resolved"
                       /\ jb.value = seen[k].result

\* A call whose stream held a complete record with a result, then a
\* batch_done record: the call has returned the result and the record after
\* the complete record has changed the panel's progress.
C23_Witness ==
    \E j \in 1..Len(jobs) :
        LET seen == RecordsOf(jobs[j].stream)
        IN  /\ jobs[j].pc = "resolved"
            /\ Len(seen) = 2
            /\ seen[1].event = "complete"
            /\ seen[2].event = "batch_done"
            /\ jobs[j].delivered = seen
            /\ OwnsPanel(j)
            /\ panel.progress.cumulativeActionables = 4

NotComplete(e) == e.event # "complete"

\* C29: a complete record sets no field of the progress: the panel's
\* progress is the reducer applied to the delivered events other than the
\* complete ones.  Reading the record stores no result: while the call reads,
\* and when it rejects, the panel shows the result it had before the call
\* ("saved"); once the stream has ended and the call has returned, the panel
\* shows what the call returned, the result the record carried.
C29_CompleteLeavesProgress ==
    \A j \in 1..Len(jobs) :
        (jobs[j].opened /\ OwnsPanel(j)) =>
            /\ panel.progress =
                   applyAll(INITIAL_PROGRESS, SelectSeq(jobs[j].delivered, NotComplete))
            /\ panel.result = IF jobs[j].pc = "resolved" THEN jobs[j].final ELSE "saved"
            /\ jobs[j].pc = "resolved" =>
                   /\ jobs[j].final # NULL
                   /\ jobs[j].value = jobs[j].final
                   /\ jobs[j].rest = <<>>

\* The complete record of a whole job has been read and handed to
\* onProgress, the end of the stream has not been signalled yet: the panel
\* still shows the result it had, and the progress is that of the events
\* before the record.
C29_Witness ==
    \E j \in 1..Len(jobs) :
        /\ jobs[j].pc = "reading"
        /\ jobs[j].final = "extracted"
        /\ Len(jobs[j].delivered) >= 2
        /\ ~NotComplete(jobs[j].delivered[Len(jobs[j].delivered)])
        /\ panel.result = "saved"
        /\ panel.progress = applyAll(INITIAL_PROGRESS,
                                     SubSeq(jobs[j].delivered, 1, Len(jobs[j].delivered) - 1))
        /\ panel.progress.stage = "done"

\* The events of a sequence that are complete records carrying a result.
WithResult(e) == e.event = "complete" /\ Has(e, "result")

\* C35: a complete record without a result does not make the call succeed:
\* a call whose stream held such a record, no complete record with a result
\* and no error record, has rejected at the end of the stream with
\* 'Extraction stream ended without a complete result'.
C35_CompleteWithoutResultFails ==
    \A j \in 1..Len(jobs) :
        LET seen == RecordsOf(jobs[j].stream)
        IN  (/\ jobs[j].opened /\ Settled(jobs[j])
             /\ \E i \in 1..Len(seen) : seen[i].event = "complete"
             /\ SelectSeq(seen, WithResult) = <<>>
             /\ FirstError(seen, 1) = 0) =>
                /\ jobs[j].pc = "rejected"
                /\ jobs[j].value = ENDED_WITHOUT_RESULT
                /\ jobs[j].final = NULL

\* A whole job whose complete record carried no result: the call has handed
\* all ten events to onProgress and has rejected.
C35_Witness ==
    \E j \in 1..Len(jobs) :
        /\ jobs[j].pc = "rejected"
        /\ jobs[j].value = ENDED_WITHOUT_RESULT
        /\ Len(jobs[j].delivered) = 10
        /\ jobs[j].delivered[10] = [event |-> "complete"]
        /\ panel.progress.stage = "done"
        /\ panel.error = ENDED_WITHOUT_RESULT

(***************************************************************************)
(* Properties of the reducer (SpecReducer).                                *)
(***************************************************************************)
\* C24 as the specification states it: a start event applied to any progress
\* snapshot leaves stage = prefilter and every counter reset: candidate
\* count, total batches, current batch, current sections, cumulative and
\* last-batch actionables.
C24_StartResetsCounters ==
    [][\A e \in ProgressEvents :
          (e.event = "start" /\ onProgress(1, e)) =>
              /\ panel'.progress.stage = "prefilter"
              /\ panel'.progress.candidateCount = 0
              /\ panel'.progress.totalBatches = 0
              /\ panel'.progress.currentBatch = 0
              /\ panel'.progress.currentSections = <<>>
              /\ panel'.progress.cumulativeActionables = 0
              /\ panel'.progress.lastBatchActionables = 0]_vars

\* A start event was applied to a snapshot with a batch done: the stage is
\* prefilter and the counters of the batch are still there.
C24_Witness ==
    /\ Len(jobs[1].delivered) = 3
    /\ jobs[1].delivered[1].event = "batch_start"
    /\ jobs[1].delivered[2].event = "batch_done"
    /\ jobs[1].delivered[3].event = "start"
    /\ panel.progress.stage = "prefilter"
    /\ panel.progress.currentBatch = 1
    /\ panel.progress.currentSections = <<"A">>
    /\ panel.progress.cumulativeActionables = 4

\* C26: a batches_planned event sets the total of batches from the event (0
\* when it carries none) and the stage to extracting, and leaves the current
\* batch, the current sections, and the cumulative and last-batch actionable
\* counts as they were.
C26_PlanEffect ==
    [][\A e \in ProgressEvents :
          (e.event = "batches_planned" /\ onProgress(1, e)) =>
              /\ panel'.progress.stage = "extracting"
              /\ panel'.progress.totalBatches =
                     IF Has(e, "total_batches") THEN e.total_batches ELSE 0
              /\ panel'.progress.currentBatch = panel.progress.currentBatch
              /\ panel'.progress.currentSections = panel.progress.currentSections
              /\ panel'.progress.cumulativeActionables =
                     panel.progress.cumulativeActionables
              /\ panel'.progress.lastBatchActionables =
                     panel.progress.lastBatchActionables]_vars

\* A plan of three batches was applied to a snapshot that showed batch 1 done.
C26_Witness ==
    /\ Len(jobs[1].delivered) = 3
    /\ jobs[1].delivered[3] = JsonObject("planned3")
    /\ panel.progress.stage = "extracting"
    /\ panel.progress.totalBatches = 3
    /\ panel.progress.currentBatch = 1
    /\ panel.progress.currentSections = <<"A">>
    /\ panel.progress.lastBatchActionables = 4

\* C28: a validation_start event sets the stage to validating and the
\* cumulative count to the event's total when it carries one, and keeps the
\* cumulative count when it carries none; a validation_done event sets the
\* stage to done and changes nothing else.
C28_ValidationEffect ==
    [][\A e \in ProgressEvents :
          onProgress(1, e) =>
              /\ e.event = "validation_start" =>
                    /\ panel'.progress.stage = "validating"
                    /\ panel'.progress.cumulativeActionables =
                           IF Has(e, "total_actionables") THEN e.total_actionables
                           ELSE panel.progress.cumulativeActionables
              /\ e.event = "validation_done" =>
                    panel'.progress = [panel.progress EXCEPT !.stage = "done"]]_vars

\* After batch 1 was done with 4 actionables, a validation_start with no
\* total and a validation_done were applied: the count is still 4.
C28_Witness ==
    /\ Len(jobs[1].delivered) = 3
    /\ jobs[1].delivered[1] = JsonObject("bdone1")
    /\ jobs[1].delivered[2] = JsonObject("vstartBare")
    /\ jobs[1].delivered[3].event = "validation_done"
    /\ panel.progress.stage = "done"
    /\ panel.progress.cumulativeActionables = 4
    /\ panel.progress.lastBatchActionables = 4

(***************************************************************************)
(* Properties of the reducer fed in protocol order (SpecProtocol).         *)
(***************************************************************************)
\* The place of a stage in the order prefilter, extracting, validating, done.
StageRank(stage) ==
    CASE stage = "prefilter" -> 1
      [] stage = "extracting" -> 2
      [] stage = "validating" -> 3
      [] stage = "done" -> 4

\* C25: while the events arrive in protocol order the stage is one of
\* prefilter, extracting, validating, done, and no applied event moves it
\* to an earlier one.
C25_StageOnlyForward ==
    /\ [](panel.progress.stage \in {"prefilter", "extracting", "validating", "done"})
    /\ [][StageRank(panel'.progress.stage) >= StageRank(panel.progress.stage)]_vars

\* A whole job with two batches was applied, the complete event last: the
\* stage is done.
C25_Witness ==
    /\ jobs[1].delivered # <<>>
    /\ jobs[1].delivered[Len(jobs[1].delivered)].event = "complete"
    /\ BatchesStarted(jobs[1].delivered) = 2
    /\ panel.progress.stage = "done"

C8_SupersededIgnored ==
    [][\A j \in 1..Len(jobs) :
          (Superseded(j) /\ Len(jobs') = Len(jobs) /\ jobs'[j] # jobs[j]) =>
              panel' = panel]_vars

\* A superseded call has delivered records after the later call started, and
\* the later call is reading for the mounted panel.
C8_Witness ==
    \E j \in 1..Len(jobs) :
        /\ Superseded(j)
        /\ jobs[j].late
        /\ jobs[j].delivered # <<>>
        /\ Settled(jobs[j])
        /\ jobs[Len(jobs)].pc = "reading"
        /\ OwnsPanel(Len(jobs))
        /\ panel.extracting

\* C16: every start of an extraction job, a retry after a success or after
\* a failure included, sets the panel's ExtractionProgress to the initial
\* snapshot and its error to none, and does so before any record of the new
\* stream is applied: the job has been handed nothing at its start, and as
\* long as the panel's job awaits its response the progress is the initial
\* snapshot.
C16_StartResets ==
    [][/\ Len(jobs') > Len(jobs) =>
             /\ panel'.progress = INITIAL_PROGRESS
             /\ panel'.error = NULL
             /\ panel'.extracting
             /\ jobs'[Len(jobs')].delivered = <<>>
             /\ jobs'[Len(jobs')].inst = inst'
       /\ \A j \in 1..Len(jobs') :
             (jobs'[j].inst = inst' /\ jobs'[j].pc = "fetch") =>
                 panel'.progress = INITIAL_PROGRESS]_vars

\* A retry has started on the panel whose first job failed after it had
\* delivered a record: the error is cleared and the progress is initial.
C16_Witness ==
    /\ Len(jobs) = 2
    /\ jobs[1].inst = inst /\ jobs[2].inst = inst
    /\ jobs[1].pc = "rejected"
    /\ jobs[1].delivered # <<>>
    /\ jobs[2].pc = "fetch"
    /\ panel.error = NULL
    /\ panel.progress = INITIAL_PROGRESS

\* The streaming calls the mounted panel has started and that have not ended.
InFlight == {j \in 1..Len(jobs) : jobs[j].inst = inst /\ ~Settled(jobs[j])}

\* C33: the extracting flag of the panel is true exactly while a streaming
\* call the panel started is in flight: true from the start of handleExtract,
\* false again once the call has ended, resolved or rejected; and the panel
\* never has two calls in flight, so no second extraction starts while the
\* flag is true.
C33_ExtractingWhileInFlight ==
    /\ panel.extracting <=> InFlight # {}
    /\ Cardinality(InFlight) <= 1

\* The panel's first call failed, its second call is reading: the flag went
\* back to false after the failure and is true again.
C33_Witness ==
    /\ Len(jobs) = 2
    /\ jobs[1].inst = inst
    /\ jobs[1].pc = "rejected"
    /\ jobs[1].value = ENDED_WITHOUT_RESULT
    /\ InFlight = {2}
    /\ jobs[2].pc = "reading"
    /\ panel.extracting

\* C34: a streaming call that fails leaves the result stored in the panel
\* that started it and sets the panel's error to the message of the failure;
\* the start of a call, a first one or a re-extraction, leaves the result
\* too; and a step of a call changes the stored result only when the call
\* returns, to what it returns.
C34_FailureKeepsResult ==
    [][/\ Len(jobs') > Len(jobs) => panel'.result = panel.result
       /\ \A j \in 1..Len(jobs) :
             (Len(jobs') = Len(jobs) /\ jobs'[j] # jobs[j]) =>
                 /\ (jobs'[j].pc = "rejected" /\ OwnsPanel(j)) =>
                        /\ panel'.result = panel.result
                        /\ panel'.error = jobs'[j].value
                 /\ panel'.result # panel.result =>
                        /\ jobs'[j].pc = "resolved"
                        /\ OwnsPanel(j)
                        /\ panel'.result = jobs'[j].value]_vars

\* The panel's first call returned a result; its re-extraction failed on an
\* error record: the panel shows the error and still has the result.
C34_Witness ==
    /\ Len(jobs) = 2
    /\ jobs[1].inst = inst /\ jobs[2].inst = inst
    /\ jobs[1].pc = "resolved"
    /\ jobs[2].pc = "rejected"
    /\ jobs[2].value = "LLM quota exceeded"
    /\ panel.result = jobs[1].value
    /\ panel.error = "LLM quota exceeded"
    /\ ~panel.extracting

(***************************************************************************)
(* Properties of the citation router (SpecNav).                            *)
(***************************************************************************)
\* The page's first two requests are (docA, 5) and then (docB, 2), the second
\* made while the first was still pending; no third request has been made.
SupersededRequest ==
    /\ Len(reqs) = 2
    /\ reqs[1].doc = "docA" /\ reqs[1].page = 5
    /\ reqs[2] = [doc |-> "docB", page |-> 2, pend |-> <<5>>]

\* C4: when a request for docA page 5 is followed, before its deferred jump
\* has fired, by a request for docB page 2, every jump issued to a handle
\* from then on is the jump of docB's viewer to index 1; no jump to index 4
\* (docA's page 5) is ever issued.
C4_LastRequestWins ==
    SupersededRequest =>
        \A i \in 1..Len(jumps) : jumps[i] = [doc |-> "docB", idx |-> 1]

\* After the two requests the deferred jump of docB has been issued and
\* nothing is pending.
C4_Witness ==
    /\ SupersededRequest
    /\ jumps = <<[doc |-> "docB", idx |-> 1]>>
    /\ pendingPage = <<>>
    /\ timers = <<>>

\* The displayed viewer is bound to document d.
ViewerBoundTo(d) == Shown /\ mounted /\ pdfDocId = d

\* C9: a request for the document the displayed viewer is bound to calls the
\* handle's jumpToPage with index pageNumber - 1 and nothing else: no pending
\* page is recorded, no timer is started, and the active document, the
\* pending page and the right-panel mode are unchanged.
C9_SameDocumentJumpsDirectly ==
    [][\A d \in Docs, p \in Pages :
          (ViewerBoundTo(d) /\ handleCitationClick(d, p)) =>
              /\ jumps' = Append(jumps, [doc |-> d, idx |-> p - 1])
              /\ UNCHANGED <<rightPanel, pdfDocId, pendingPage, timers>>]_vars

\* A request for the shown document has jumped directly, with no request
\* pending before or after.
C9_Witness ==
    /\ Len(reqs) = 2
    /\ reqs[2].doc = reqs[1].doc
    /\ reqs[2].pend = <<>>
    /\ pendingPage = <<>>
    /\ jumps # <<>>
    /\ jumps[Len(jumps)] = [doc |-> reqs[2].doc, idx |-> reqs[2].page - 1]

\* No viewer is displayed (the right panel shows the corpus list), or the
\* displayed viewer is for another document than d.
NoViewerFor(d) == ~Shown \/ pdfDocId # d

\* C10 as the specification states it: a request made while the displayed
\* viewer is bound to another document, or while no viewer is displayed (also
\* when the corpus list is shown and the last document is remembered), makes
\* the requested document the active one, records the pending page and
\* switches the right panel to the viewer.
C10_OtherDocumentIsQueued ==
    [][\A d \in Docs, p \in Pages :
          (NoViewerFor(d) /\ handleCitationClick(d, p)) =>
              /\ pdfDocId' = d
              /\ pendingPage' = <<p>>
              /\ rightPanel' = "pdf"]_vars

\* C30 as the specification states it: the pending page is cleared or
\* replaced only when a newer request has superseded it, or when the jump it
\* describes has been issued on the mounted handle of the viewer of the
\* active document; a deferred timer that fires while no handle is mounted
\* does not clear it.
C30_PendingClearedOnlyByJump ==
    [][(pendingPage # <<>> /\ pendingPage' # pendingPage) =>
          \/ /\ Len(reqs') = Len(reqs) + 1
             /\ pendingPage' = <<reqs'[Len(reqs')].page>>
          \/ /\ mounted
             /\ pendingPage' = <<>>
             /\ jumps' = Append(jumps, [doc |-> pdfDocId,
                                        idx |-> PageIndex(pendingPage[1])])]_vars

\* One request was made, its timer fired before the viewer had mounted, then
\* the viewer mounted: nothing is pending and no jump was ever issued.
C30_Witness ==
    /\ Len(reqs) = 1
    /\ pendingPage = <<>>
    /\ timers = <<>>
    /\ jumps = <<>>
    /\ Shown
    /\ mounted

\* C32: at most one deferred-jump timer is armed at any time, and it is the
\* timer of the pending page of the active document; a timer that fires is
\* gone and leaves no pending page and no timer, so it fires once; and a
\* timer is armed only by a request, which cancels the timer that was
\* running.
C32_OneSingleShotTimer ==
    /\ [](/\ Len(timers) <= 1
          /\ timers # <<>> => (pdfDocId # NULL /\ timers = pendingPage))
    /\ [][\A i \in 1..Len(timers) :
             TimerFires(i) => (timers' = <<>> /\ pendingPage' = <<>>)]_vars
    /\ [][(timers' # <<>> /\ timers' # timers) =>
             /\ Len(reqs') = Len(reqs) + 1
             /\ timers' = <<reqs'[Len(reqs')].page>>]_vars

\* A second request, for another document and page, was made while the timer
\* of the first was armed: one timer is armed, that of the second request.
C32_Witness ==
    /\ Len(reqs) = 2
    /\ reqs[2].pend = <<reqs[1].page>>
    /\ reqs[2].doc # reqs[1].doc
    /\ reqs[2].page # reqs[1].page
    /\ timers = <<reqs[2].page>>
    /\ jumps = <<>>

\* The page's first request made a pending jump, and its second request, for
\* another page of the same document, was made while that jump was pending.
SameDocumentRequest ==
    /\ Len(reqs) = 2
    /\ reqs[2].doc = reqs[1].doc
    /\ reqs[2].page # reqs[1].page
    /\ reqs[2].pend = <<reqs[1].page>>

\* C37 as the specification states it: when a request for a page of a
\* document is followed, before its deferred jump has fired, by a request for
\* another page of the same document, no jump for the first page is issued
\* after a jump for the second, and once no timer is armed the last jump
\* issued is the one for the second page.
C37_LastRequestWinsInDocument ==
    SameDocumentRequest =>
        /\ \A i, k \in 1..Len(jumps) :
               (i < k /\ jumps[i].idx = PageIndex(reqs[2].page)) =>
                   jumps[k].idx # PageIndex(reqs[1].page)
        /\ (timers = <<>> /\ jumps # <<>>) =>
               jumps[Len(jumps)].idx = PageIndex(reqs[2].page)

\* The second request jumped at once, then the timer of the first request
\* fired: the viewer's last jump is for the page of the first request.
C37_Witness ==
    /\ SameDocumentRequest
    /\ timers = <<>>
    /\ pendingPage = <<>>
    /\ jumps = <<[doc |-> reqs[1].doc, idx |-> PageIndex(reqs[2].page)],
                 [doc |-> reqs[1].doc, idx |-> PageIndex(reqs[1].page)]>>

\* C40: closing the PDF panel while a deferred jump is pending cancels its
\* timer and issues no jump; while the panel is closed no timer is armed;
\* and from the closed panel nothing issues a jump, arms a timer or shows a
\* document except a new request, whose timer is for its own page.
C40_CloseCancelsPendingJump ==
    /\ [][(closePdf /\ pendingPage # <<>>) =>
             (timers' = <<>> /\ jumps' = jumps /\ scrolls' = scrolls)]_vars
    /\ [](pdfDocId = NULL => timers = <<>>)
    /\ [][(pdfDocId = NULL /\ Len(reqs') = Len(reqs)) =>
             (jumps' = jumps /\ timers' = <<>> /\ pdfDocId' = NULL)]_vars
    /\ [][(pdfDocId = NULL /\ Len(reqs') # Len(reqs)) =>
             (jumps' = jumps /\ timers' = <<reqs'[Len(reqs')].page>>)]_vars

\* The panel was closed before the timer of the one request had fired: the
\* page is still recorded as pending, no timer is armed, no jump was issued.
C40_Witness ==
    /\ Len(reqs) = 1
    /\ pdfDocId = NULL
    /\ rightPanel = "corpus"
    /\ pendingPage = <<reqs[1].page>>
    /\ timers = <<>>
    /\ jumps = <<>>
    /\ ~mounted

(***************************************************************************)
(* Properties of the producers of jumps (SpecCite).                        *)
(***************************************************************************)
\* C36 as the specification states it: every jumpToPage call, whichever
\* handler made it, passed an index that is not negative.
C36_IndexNotNegative ==
    \A i \in 1..Len(jumps) : jumps[i].idx >= 0

\* A citation of page 0 of the shown document was clicked on the research
\* page: the handle was called with index -1.
C36_Witness ==
    /\ Len(reqs) = 2
    /\ reqs[2].page = 0
    /\ reqs[2].doc = reqs[1].doc
    /\ reqs[1].page >= 1
    /\ jumps # <<>>
    /\ jumps[Len(jumps)].idx = 0 - 1

(***************************************************************************)
(* Properties of the viewer's handle (SpecHandle).                         *)
(***************************************************************************)
\* C5 as the specification states it: one handle has at most one poll
\* running, whatever jumpToPage calls and poll ticks came before.
C5_AtMostOnePoll == Len(polls) <= 1

(***************************************************************************)
(* Properties of the polls (SpecPoll).                                     *)
(***************************************************************************)
\* C21: a poll whose page layer does not appear gives up by itself: no poll
\* has ticked more than MaxAttempts times, so it has looked for the page at
\* most that often; the tick after the last look clears the interval, scrolls
\* nothing and raises nothing; and every poll ends: time and again no poll is
\* running.
C21_PollGivesUp ==
    /\ [](\A i \in 1..Len(polls) : polls[i].attempts <= MaxAttempts)
    /\ [][(PollTick /\ Head(polls).attempts = MaxAttempts) =>
             (polls' = Tail(polls) /\ scrolls' = scrolls)]_vars
    /\ []<>(polls = <<>>)

\* A jump was made to a page whose layer never appeared: its poll has ended
\* and nothing was scrolled.
C21_Witness ==
    /\ jumps # <<>>
    /\ polls = <<>>
    /\ scrolls = <<>>
    /\ mounted
    /\ pages = {}

\* C22 as the specification states it: when the viewer is unmounted (the
\* user closes it or leaves for the corpus list) while polls of its handle
\* run, their intervals are cancelled at that moment, and no tick of a poll
\* of an unmounted viewer runs.
C22_UnmountCancelsPolls ==
    /\ [](\A i \in 1..Len(polls) : polls[i].live)
    /\ [][PollTick => Head(polls).live]_vars

\* The viewer was closed while a poll ran, and the poll has ticked since.
C22_Witness ==
    /\ ~mounted
    /\ \E i \in 1..Len(polls) : ~polls[i].live /\ polls[i].attempts >= 2

C6_AdoptedIdIsReused ==
    \A i, k \in 1..Len(turns) :
        (i < k /\ turns[i].sent = NULL /\ turns[i].got # NULL
               /\ turns[k].epoch = turns[i].epoch) =>
            turns[k].sent = turns[i].got

IsPrefix(a, b) == Len(a) <= Len(b) /\ a = SubSeq(b, 1, Len(a))

\* C20 as the specification states it: when the request of a submitted turn
\* returns with a failure, the turn list keeps every turn it had, the
\* optimistic user turn included, and gains no turn of role assistant; the
\* active conversation id is unchanged.
C20_FailedSubmitAddsNoAnswer ==
    [][\A c \in calls :
          (QueryReturn(c) /\ ~c.ok) =>
              /\ IsPrefix(chat.messages, chat'.messages)
              /\ \A i \in (Len(chat.messages) + 1)..Len(chat'.messages) :
                     chat'.messages[i].role # "assistant"
              /\ chat'.activeConvId = chat.activeConvId]_vars

\* The first turn has failed while no session was active: the turn list is
\* the user turn followed by a turn of role assistant, and no turn was filed.
C20_Witness ==
    /\ Len(turns) = 1
    /\ turns[1].got = NULL
    /\ ~chat.loading
    /\ chat.activeConvId = NULL
    /\ chat.messages = <<[role |-> "user", of |-> NULL], [role |-> "assistant", of |-> NULL]>>

\* The turn list no longer ends with the question of the turn in flight: the
\* session it was asked in has been left.
SessionLeft ==
    chat.messages = <<>> \/ chat.messages[Len(chat.messages)].role # "user"

\* C39 as the specification states it: when the user has started a new
\* session or selected another one since a turn was submitted, the return of
\* that turn's request leaves the turns and the identifier of the session
\* that is active by then as they are.
C39_LateAnswerLeavesActiveSession ==
    [][\A c \in calls :
          (/\ c.kind = "query"
           /\ QueryReturn(c)
           /\ turns[c.turn].epoch # clicks
           /\ SessionLeft) =>
              /\ chat'.messages = chat.messages
              /\ chat'.activeConvId = chat.activeConvId]_vars

\* A turn was submitted in a new session; the user then selected m0, whose
\* turns were loaded; the answer came back: it stands after m0's turns and
\* the active identifier is the one the answer carried.
C39_Witness ==
    /\ Len(turns) = 1
    /\ turns[1].sent = NULL
    /\ turns[1].epoch = 0
    /\ clicks = 1
    /\ turns[1].got # NULL
    /\ chat.activeConvId = turns[1].got
    /\ chat.messages = History("m0") \o <<[role |-> "assistant", of |-> turns[1].got]>>

(***************************************************************************)
(* Properties of the loads and the sidebar (SpecLoad).                     *)
(***************************************************************************)
DeleteCalls(cs) == {c \in cs : c.kind = "delete"}

\* C18: a delete request carries the session that is active when the delete
\* is asked for.  When the delete of session S returns with success, S leaves
\* the known-session list; if S was the active session the active id becomes
\* absent and the turn list empty, and if it was not, the active id and the
\* turns stay as they are.  When the delete returns with a failure the list,
\* the active id and the turns stay as they are.
C18_DeleteEffect ==
    [][/\ \A c \in DeleteCalls(calls') \ DeleteCalls(calls) :
             ~c.served => (c.active = chat.activeConvId /\ chat' = chat)
       /\ \A c \in calls :
             DeleteReturn(c) =>
                 IF c.ok
                 THEN /\ chat'.conversations = Remove(chat.conversations, c.conv)
                      /\ ~InSeq(chat'.conversations, c.conv)
                      /\ IF c.active = c.conv
                         THEN chat'.activeConvId = NULL /\ chat'.messages = <<>>
                         ELSE /\ chat'.activeConvId = chat.activeConvId
                              /\ chat'.messages = chat.messages
                 ELSE /\ chat'.conversations = chat.conversations
                      /\ chat'.activeConvId = chat.activeConvId
                      /\ chat'.messages = chat.messages]_vars

\* The delete of the session that was active, with its turns shown, when it
\* was requested has returned: the session has left the list, no session is
\* active and the turn list is empty.
C18_Witness ==
    /\ clicks = 1
    /\ calls = {}
    /\ ~Stored("m1")
    /\ chat.conversations = <<"m0">>
    /\ chat.activeConvId = NULL
    /\ chat.messages = <<>>
    /\ ~chat.loadingHistory

LoadCalls(cs) == {c \in cs : c.kind \in {"list", "hydrate"}}

C38_TurnsOfActiveConversation ==
    chat.activeConvId # NULL =>
        \A i \in 1..Len(chat.messages) :
            chat.messages[i].role = "history" => chat.messages[i].of = chat.activeConvId

\* The load opened m1 and fetched its history; the user selected m0 before
\* that fetch returned; both fetches have returned, m0's first: m0 is active
\* and the turns shown are m1's.
C38_Witness ==
    /\ chat.activeConvId = "m0"
    /\ chat.messages = History("m1")
    /\ ~chat.loadingHistory
    /\ clicks = 1
    /\ chat.switches = 0
    /\ \A c \in calls : c.kind \notin {"hydrate", "select"}

====
